---- MODULE Spec2Model ----
(***************************************************************************)
(* Session and token lifecycle of SvelteFireauth.                          *)
(*                                                                         *)
(* The repository holds two generations of the library side by side:       *)
(*   - the auth store `createAuthStore` (client cache with localStorage    *)
(*     persistence and an interval timer) that talks to the provider       *)
(*     through FirebaseAuthClient;                                         *)
(*   - the `AuthStore` class with its Svelte stores, which talks to the    *)
(*     server's /api/auth endpoints (AuthHandler / SessionManager).        *)
(* The server also guards routes (AuthMiddleware, createAuthGuard,         *)
(* protectRoute).  These parts share no state, so the variable `system`    *)
(* selects the one whose handlers run; each has its own specification.     *)
(***************************************************************************)
EXTENDS Integers, Sequences, FiniteSets, TLC

VARIABLES
    system,               \* the part of the repository that runs
    now,                  \* Date.now(), epoch milliseconds
    localStorage,         \* durable storage: key -> Null | <<string>>
    \* ---- createAuthStore closure ----
    client,               \* client !== null
    config,               \* Null | <<AuthStoreConfig>>
    refreshInterval,      \* Null | <<timer id>>   (the handle variable)
    currentIdToken,       \* Null | <<token>>
    currentRefreshToken,  \* Null | <<token>>
    expiresAt,            \* Null | <<ms>>
    state,                \* the writable<AuthState>
    timers,               \* the interval timers armed in the event loop
    calls,                \* provider calls whose await has not resumed yet
    inits,                \* init() invocations so far (fresh timer ids)
    userCalls,             \* signIn/signUp/deleteAccount calls started so far
    \* ---- AuthStore and its Svelte stores ----
    user,                 \* writable<User | null>
    authState,            \* writable<AuthState>
    loading,              \* writable<boolean>
    error,                \* writable<string | null>
    fetches,              \* fetch() calls of AuthStore not yet resumed
    waiter,               \* the promise of a waitForAuthInit() call
    authEvents,           \* writable<AuthEvent[]>, and the operations run so far
    \* ---- server: requests being handled by AuthHandler ----
    reqs,                 \* request id -> its handler's position and locals
    \* ---- server: the request passing through the route guard ----
    guard,                \* the guard's position, its inputs, locals and outcome
    \* ---- server: library functions applied to drawn inputs ----
    codec,                \* the session cookie codec: inputs and results
    routes,               \* the request passing through createAuthHandle
    platform,             \* IdentityPlatform.instance and the calls made
    chain,                \* the handle composed by sequence() and its run
    \* ---- identity provider ----
    rotating,             \* the provider rotates refresh tokens on use
    valid,                \* refresh tokens the provider accepts
    minted,               \* tokens issued so far (fresh token values)
    lifetime,             \* the lifetime the provider grants (expires_in)
    \* ---- history (observers, not read by any handler) ----
    failedRts,            \* refresh tokens whose exchange the cache saw fail
    lastOp                \* the handler of the client that ran last

cacheVars == <<client, config, refreshInterval, currentIdToken,
               currentRefreshToken, expiresAt, state, timers, calls, inits,
               userCalls, failedRts>>
storeVars == <<user, authState, loading, error, fetches, waiter, authEvents>>
libVars == <<codec, routes, platform, chain>>
providerVars == <<rotating, valid, minted, lifetime>>
vars == <<system, now, localStorage, cacheVars, storeVars, reqs, guard,
          libVars, providerVars, lastOp>>

(***************************************************************************)
(* Bounds of the model.                                                    *)
(***************************************************************************)
MaxInFlight == 2
MaxUserCalls == 1
MaxReqs == 2
MaxInits == 2
MaxSteps == 2

(***************************************************************************)
(* Values.                                                                 *)
(***************************************************************************)
Null == <<>>
Some(v) == <<v>>
\* JavaScript truthiness of a nullable number / string
Truthy(x) == x # Null /\ x[1] # 0

Step == 5 * 60 * 1000
Now0 == 60 * 60 * 1000
BufferMs == 5 * 60 * 1000
DEFAULT_REFRESH_INTERVAL == 55 * 60 * 1000

STORAGE_KEYS == [ID_TOKEN |-> "sveltefireauth_id_token",
                 REFRESH_TOKEN |-> "sveltefireauth_refresh_token",
                 USER |-> "sveltefireauth_user",
                 EXPIRES_AT |-> "sveltefireauth_expires_at"]
CacheKeys == {STORAGE_KEYS.ID_TOKEN, STORAGE_KEYS.REFRESH_TOKEN,
              STORAGE_KEYS.USER, STORAGE_KEYS.EXPIRES_AT}
StoreKey == "svelteFireAuth:user"
AllKeys == CacheKeys \cup {StoreKey}

\* Strings kept in storage or sent over the wire, by what they hold.
Text(v) == [kind |-> "text", val |-> v]
safeJsonStringify(v) == [kind |-> "json", val |-> v]
safeJsonParse(s, fallback) == IF s.kind = "json" THEN Some(s.val) ELSE fallback
NumToString(n) == [kind |-> "num", val |-> n]
\* parseInt of a non-numeric string is NaN, which is falsy like 0
parseInt(s) == IF s.kind = "num" THEN s.val ELSE 0

calculateExpiresAt(expiresIn) == now + parseInt(expiresIn) * 1000
isTokenExpired(exp) == now >= exp
willTokenExpireSoon(exp) == now + BufferMs >= exp

initialState == [user |-> Null, loading |-> FALSE, error |-> Null,
                 isAuthenticated |-> FALSE]

\* lifetimes the provider may grant, in seconds (expires_in / expiresIn)
ExpiresIn == {NumToString(60), NumToString(3600)}

Configs == {[persistence |-> TRUE, autoRefresh |-> TRUE, refreshInterval |-> Step],
            [persistence |-> TRUE, autoRefresh |-> TRUE, refreshInterval |-> 0],
            [persistence |-> FALSE, autoRefresh |-> FALSE, refreshInterval |-> 0]}

\* the User built by signUp and by signIn (whose response carries no
\* displayName / photoUrl here)
User(kind) == [localId |-> "alice", email |-> "alice@example.com",
               emailVerified |-> FALSE]

EmptyStorage == [k \in AllKeys |-> Null]
\* what an earlier page load of the same application left behind
PersistedBundle(exp) ==
    [k \in AllKeys |->
        IF k = STORAGE_KEYS.USER THEN Some(safeJsonStringify(User("signIn")))
        ELSE IF k = STORAGE_KEYS.ID_TOKEN THEN Some(Text(1))
        ELSE IF k = STORAGE_KEYS.REFRESH_TOKEN THEN Some(Text(1))
        ELSE IF k = STORAGE_KEYS.EXPIRES_AT THEN Some(NumToString(exp))
        ELSE Null]
(***************************************************************************)
(* createAuthStore: the helpers of the closure.                            *)
(***************************************************************************)
Pending == [type |-> "pending", idToken |-> 0, refreshToken |-> 0,
            expiresIn |-> NumToString(0)]
Failure(why) == [type |-> why, idToken |-> 0, refreshToken |-> 0,
                 expiresIn |-> NumToString(0)]
Ok(id, rt, e) == [type |-> "ok", idToken |-> id, refreshToken |-> rt,
                  expiresIn |-> e]

\* a call that starts now; its id tells it from the others in flight
NewCall(kind, arg) ==
    [id |-> CHOOSE i \in 1..(Cardinality(calls) + 1) :
                \A c \in calls : c.id # i,
     kind |-> kind, arg |-> arg, resp |-> Pending]

\* persistState(user, idToken, refreshToken, expiresAtTime), in a browser
persistState(st, cfg, userData, idToken, refreshToken, expiresAtTime) ==
    IF ~cfg.persistence THEN st
    ELSE [st EXCEPT ![STORAGE_KEYS.USER] = Some(safeJsonStringify(userData)),
                    ![STORAGE_KEYS.ID_TOKEN] = Some(Text(idToken)),
                    ![STORAGE_KEYS.REFRESH_TOKEN] = Some(Text(refreshToken)),
                    ![STORAGE_KEYS.EXPIRES_AT] = Some(NumToString(expiresAtTime))]

\* clearPersistedState() without its removeItem of the refresh token
clearPersistedState_keepsRefreshToken(st) ==
    [k \in DOMAIN st |->
        IF k \in CacheKeys \ {STORAGE_KEYS.REFRESH_TOKEN} THEN Null ELSE st[k]]
\* clearPersistedState(), in a browser
clearPersistedState(st) ==
    [k \in DOMAIN st |-> IF k \in CacheKeys THEN Null ELSE st[k]]

\* the synchronous part of refreshTokens(): the guard, then the exchange
\* is sent with the refresh token held at that moment
refreshTokens(cl, rt) ==
    IF ~cl \/ rt = Null THEN {} ELSE {NewCall("refresh", rt[1])}

\* setupAutoRefresh() without its clearInterval
setupAutoRefresh_noClear(cfg) ==
    LET interval == IF cfg.refreshInterval # 0 THEN cfg.refreshInterval
                    ELSE DEFAULT_REFRESH_INTERVAL
    IN  timers \cup {[id |-> inits + 1, due |-> now + interval,
                      period |-> interval]}
\* setupAutoRefresh(): the timers armed afterwards
setupAutoRefresh(cfg) ==
    LET interval == IF cfg.refreshInterval # 0 THEN cfg.refreshInterval
                    ELSE DEFAULT_REFRESH_INTERVAL
        kept == IF refreshInterval # Null
                THEN {t \in timers : t.id # refreshInterval[1]}
                ELSE timers
    IN  kept \cup {[id |-> inits + 1, due |-> now + interval,
                    period |-> interval]}

\* the body of signOut()
signOutBody ==
    /\ currentIdToken' = Null
    /\ currentRefreshToken' = Null
    /\ expiresAt' = Null
    /\ localStorage' = clearPersistedState(localStorage)
    /\ state' = initialState

(***************************************************************************)
(* createAuthStore: the operations.                                        *)
(***************************************************************************)
\* init(storeConfig), with loadPersistedState() and setupAutoRefresh()
init(cfg) ==
    LET storedData == localStorage[STORAGE_KEYS.USER]
        storedIdToken == localStorage[STORAGE_KEYS.ID_TOKEN]
        storedRefreshToken == localStorage[STORAGE_KEYS.REFRESH_TOKEN]
        storedExpiresAt == localStorage[STORAGE_KEYS.EXPIRES_AT]
        allStored == /\ storedData # Null /\ storedIdToken # Null
                     /\ storedRefreshToken # Null /\ storedExpiresAt # Null
        userData == IF allStored THEN safeJsonParse(storedData[1], Null) ELSE Null
        loaded == cfg.persistence /\ allStored /\ userData # Null
        exp == IF loaded THEN parseInt(storedExpiresAt[1]) ELSE 0
        started == IF loaded /\ willTokenExpireSoon(exp)
                   THEN refreshTokens(TRUE, Some(storedRefreshToken[1].val))
                   ELSE {}
    IN  /\ system = "cache"
        /\ inits < MaxInits
        /\ Cardinality(calls) + Cardinality(started) <= MaxInFlight
        /\ inits' = inits + 1
        /\ config' = Some(cfg)
        /\ client' = TRUE
        /\ IF loaded
           THEN /\ currentIdToken' = Some(storedIdToken[1].val)
                /\ currentRefreshToken' = Some(storedRefreshToken[1].val)
                /\ expiresAt' = Some(exp)
                /\ state' = [user |-> userData, loading |-> FALSE, error |-> Null,
                             isAuthenticated |-> TRUE]
           ELSE UNCHANGED <<currentIdToken, currentRefreshToken, expiresAt,
                            state>>
        /\ calls' = calls \cup started
        /\ IF cfg.autoRefresh
           THEN /\ timers' = setupAutoRefresh(cfg)
                /\ refreshInterval' = Some(inits + 1)
           ELSE UNCHANGED <<timers, refreshInterval>>
        /\ lastOp' = "init"
        /\ UNCHANGED <<system, guard, libVars, storeVars, reqs, now, localStorage, userCalls, providerVars,
                       failedRts>>

\* the setInterval callback of setupAutoRefresh(), run when timer t is due
TimerFire(t) ==
    LET started == IF Truthy(expiresAt) /\ willTokenExpireSoon(expiresAt[1])
                   THEN refreshTokens(client, currentRefreshToken)
                   ELSE {}
    IN  /\ system = "cache"
        /\ t \in timers
        /\ now >= t.due
        /\ Cardinality(calls) + Cardinality(started) <= MaxInFlight
        /\ timers' = (timers \ {t}) \cup {[t EXCEPT !.due = t.due + t.period]}
        /\ calls' = calls \cup started
        /\ lastOp' = "tick"
        /\ UNCHANGED <<system, guard, libVars, storeVars, reqs, now, localStorage, client, config,
                       refreshInterval, currentIdToken, currentRefreshToken,
                       expiresAt, state, inits, userCalls, failedRts, providerVars>>

\* refreshTokens() resumes after `await client.refreshToken(...)`
RefreshResolve(c) ==
    /\ system = "cache"
    /\ c \in calls /\ c.kind = "refresh" /\ c.resp.type # "pending"
    /\ calls' = calls \ {c}
    /\ IF c.resp.type = "ok"
       THEN LET newExp == calculateExpiresAt(c.resp.expiresIn)
            IN  /\ currentIdToken' = Some(c.resp.idToken)
                /\ currentRefreshToken' = Some(c.resp.refreshToken)
                /\ expiresAt' = Some(newExp)
                /\ localStorage' =
                      IF state.user # Null
                      THEN persistState(localStorage, config[1], state.user[1],
                                        c.resp.idToken, c.resp.refreshToken,
                                        newExp)
                      ELSE localStorage
                /\ lastOp' = "refreshed"
                /\ UNCHANGED <<state, failedRts>>
       ELSE /\ signOutBody
            /\ failedRts' = failedRts \cup {c.arg}
            /\ lastOp' = "refreshFailed"
    /\ UNCHANGED <<system, guard, libVars, storeVars, reqs, now, client, config, refreshInterval, timers,
                   inits, userCalls, providerVars>>

\* signUp(email, password) / signIn(email, password) up to the await
SignIn(kind) ==
    /\ system = "cache"
    /\ client
    /\ Cardinality(calls) < MaxInFlight /\ userCalls < MaxUserCalls
    /\ userCalls' = userCalls + 1
    /\ state' = [state EXCEPT !.loading = TRUE, !.error = Null]
    /\ calls' = calls \cup {NewCall(kind, 0)}
    /\ lastOp' = "signInCall"
    /\ UNCHANGED <<system, guard, libVars, storeVars, reqs, now, localStorage, client, config, refreshInterval,
                   currentIdToken, currentRefreshToken, expiresAt, timers,
                   inits, failedRts, providerVars>>

\* signUp / signIn resume after the await
SignInResolve(c) ==
    /\ system = "cache"
    /\ c \in calls /\ c.kind \in {"signIn", "signUp"}
    /\ c.resp.type # "pending"
    /\ calls' = calls \ {c}
    /\ IF c.resp.type = "ok"
       THEN LET newExp == calculateExpiresAt(c.resp.expiresIn)
                userData == User(c.kind)
            IN  /\ currentIdToken' = Some(c.resp.idToken)
                /\ currentRefreshToken' = Some(c.resp.refreshToken)
                /\ expiresAt' = Some(newExp)
                /\ localStorage' = persistState(localStorage, config[1], userData,
                                                c.resp.idToken,
                                                c.resp.refreshToken, newExp)
                /\ state' = [user |-> Some(userData), loading |-> FALSE,
                             error |-> Null, isAuthenticated |-> TRUE]
                /\ lastOp' = "signedIn"
       ELSE /\ state' = [state EXCEPT !.loading = FALSE,
                                      !.error = Some("AuthError")]
            /\ lastOp' = "signInFailed"
            /\ UNCHANGED <<currentIdToken, currentRefreshToken, expiresAt,
                           localStorage>>
    /\ UNCHANGED <<system, guard, libVars, storeVars, reqs, now, client, config, refreshInterval, timers,
                   inits, userCalls, failedRts, providerVars>>

\* signOut()
signOut ==
    /\ system = "cache"
    /\ signOutBody
    /\ lastOp' = "signOut"
    /\ UNCHANGED <<system, guard, libVars, storeVars, reqs, now, client, config, refreshInterval, timers,
                   calls, inits, userCalls, failedRts, providerVars>>

\* deleteAccount() up to `await client.deleteAccount(currentIdToken)`
deleteAccount ==
    /\ system = "cache"
    /\ client /\ currentIdToken # Null
    /\ Cardinality(calls) < MaxInFlight /\ userCalls < MaxUserCalls
    /\ userCalls' = userCalls + 1
    /\ state' = [state EXCEPT !.loading = TRUE, !.error = Null]
    /\ calls' = calls \cup {NewCall("deleteAccount", currentIdToken[1])}
    /\ lastOp' = "deleteCall"
    /\ UNCHANGED <<system, guard, libVars, storeVars, reqs, now, localStorage, client, config, refreshInterval,
                   currentIdToken, currentRefreshToken, expiresAt, timers,
                   inits, failedRts, providerVars>>

\* deleteAccount() resumes: `await signOut()` or the catch branch
DeleteResolve(c) ==
    /\ system = "cache"
    /\ c \in calls /\ c.kind = "deleteAccount" /\ c.resp.type # "pending"
    /\ calls' = calls \ {c}
    /\ IF c.resp.type = "ok"
       THEN /\ signOutBody
            /\ lastOp' = "accountDeleted"
       ELSE /\ state' = [state EXCEPT !.loading = FALSE,
                                      !.error = Some("AuthError")]
            /\ lastOp' = "deleteFailed"
            /\ UNCHANGED <<currentIdToken, currentRefreshToken, expiresAt,
                           localStorage>>
    /\ UNCHANGED <<system, guard, libVars, storeVars, reqs, now, client, config, refreshInterval, timers,
                   inits, userCalls, failedRts, providerVars>>

\* updateProfile(data) up to `await client.updateProfile(data, currentIdToken)`
updateProfile ==
    /\ system = "cache"
    /\ client /\ currentIdToken # Null
    /\ Cardinality(calls) < MaxInFlight /\ userCalls < MaxUserCalls
    /\ userCalls' = userCalls + 1
    /\ state' = [state EXCEPT !.loading = TRUE, !.error = Null]
    /\ calls' = calls \cup {NewCall("updateProfile", currentIdToken[1])}
    /\ lastOp' = "updateProfileCall"
    /\ UNCHANGED <<system, guard, libVars, storeVars, reqs, now, localStorage, client, config, refreshInterval,
                   currentIdToken, currentRefreshToken, expiresAt, timers,
                   inits, failedRts, providerVars>>

\* { ...currentState.user!, displayName, photoUrl } of updateProfile, with
\* the values of the response; the spread of null adds nothing
profileUser(currentUser) ==
    LET base == IF currentUser = Null THEN <<>> ELSE currentUser[1] IN
    [k \in DOMAIN base \cup {"displayName", "photoUrl"} |->
        IF k = "displayName" THEN "Alice"
        ELSE IF k = "photoUrl" THEN "alice.png"
        ELSE base[k]]

\* updateProfile resumes after the await
UpdateProfileResolve(c) ==
    /\ system = "cache"
    /\ c \in calls /\ c.kind = "updateProfile" /\ c.resp.type # "pending"
    /\ calls' = calls \ {c}
    /\ IF c.resp.type = "ok"
       THEN LET updatedUser == profileUser(state.user)
                \* the response carries idToken, refreshToken and expiresIn
                \* or none of them
                carries == c.resp.idToken # 0
                idToken == IF carries THEN Some(c.resp.idToken)
                           ELSE currentIdToken
                refreshToken == IF carries THEN Some(c.resp.refreshToken)
                                ELSE currentRefreshToken
                expiresAtTime == IF carries
                                 THEN Some(calculateExpiresAt(c.resp.expiresIn))
                                 ELSE expiresAt
            IN  /\ currentIdToken' = idToken
                /\ currentRefreshToken' = refreshToken
                /\ expiresAt' = expiresAtTime
                /\ localStorage' =
                      IF /\ idToken # Null /\ refreshToken # Null
                         /\ Truthy(expiresAtTime)
                      THEN persistState(localStorage, config[1], updatedUser,
                                        idToken[1], refreshToken[1],
                                        expiresAtTime[1])
                      ELSE localStorage
                /\ state' = [state EXCEPT !.user = Some(updatedUser),
                                          !.loading = FALSE]
                /\ lastOp' = "profileUpdated"
       ELSE /\ state' = [state EXCEPT !.loading = FALSE,
                                      !.error = Some("AuthError")]
            /\ lastOp' = "profileUpdateFailed"
            /\ UNCHANGED <<currentIdToken, currentRefreshToken, expiresAt,
                           localStorage>>
    /\ UNCHANGED <<system, guard, libVars, storeVars, reqs, now, client, config, refreshInterval, timers,
                   inits, userCalls, failedRts, providerVars>>

(***************************************************************************)
(* The environment of the cache: the clock and the identity provider.      *)
(***************************************************************************)
Answer(c, r) == calls' = (calls \ {c}) \cup {[c EXCEPT !.resp = r]}

\* time passes; an interval timer runs when it is due, not later
Advance ==
    /\ system = "cache"
    /\ now + Step <= Now0 + MaxSteps * Step
    /\ \A t \in timers : t.due >= now + Step
    /\ now' = now + Step
    /\ UNCHANGED <<system, guard, libVars, storeVars, reqs, localStorage, cacheVars, providerVars, lastOp>>

\* securetoken /token: the exchange of a refresh token
ProviderExchange(c) ==
    /\ system = "cache"
    /\ c \in calls /\ c.kind = "refresh" /\ c.resp.type = "pending"
    /\ IF c.arg \in valid
       THEN /\ minted' = minted + 1
            /\ valid' = IF rotating
                        THEN (valid \ {c.arg}) \cup {minted + 1}
                        ELSE valid
            /\ Answer(c, Ok(minted + 1,
                            IF rotating THEN minted + 1 ELSE c.arg, lifetime))
       ELSE /\ Answer(c, Failure("rejected"))
            /\ UNCHANGED <<minted, valid>>
    /\ UNCHANGED <<system, guard, libVars, storeVars, reqs, now, localStorage, client, config, refreshInterval,
                   currentIdToken, currentRefreshToken, expiresAt, state,
                   timers, inits, userCalls, failedRts, rotating, lifetime,
                   lastOp>>

\* accounts:signUp / accounts:signInWithPassword
ProviderSignIn(c) ==
    /\ system = "cache"
    /\ c \in calls /\ c.kind \in {"signIn", "signUp"}
    /\ c.resp.type = "pending"
    /\ \/ /\ minted' = minted + 1
          /\ valid' = valid \cup {minted + 1}
          /\ Answer(c, Ok(minted + 1, minted + 1, lifetime))
       \/ /\ Answer(c, Failure("rejected"))
          /\ UNCHANGED <<minted, valid>>
    /\ UNCHANGED <<system, guard, libVars, storeVars, reqs, now, localStorage, client, config, refreshInterval,
                   currentIdToken, currentRefreshToken, expiresAt, state,
                   timers, inits, userCalls, failedRts, rotating, lifetime,
                   lastOp>>

\* accounts:delete: the account and its refresh tokens are gone
ProviderDelete(c) ==
    /\ system = "cache"
    /\ c \in calls /\ c.kind = "deleteAccount" /\ c.resp.type = "pending"
    /\ \/ /\ Answer(c, Ok(0, 0, NumToString(0)))
          /\ valid' = {}
       \/ /\ Answer(c, Failure("rejected"))
          /\ UNCHANGED valid
    /\ UNCHANGED <<system, guard, libVars, storeVars, reqs, now, localStorage, client, config, refreshInterval,
                   currentIdToken, currentRefreshToken, expiresAt, state,
                   timers, inits, userCalls, failedRts, rotating, minted, lifetime,
                   lastOp>>

\* accounts:update with returnSecureToken: the profile is changed; the
\* response carries a fresh token pair, or none
ProviderUpdateProfile(c) ==
    /\ system = "cache"
    /\ c \in calls /\ c.kind = "updateProfile" /\ c.resp.type = "pending"
    /\ \/ /\ minted' = minted + 1
          /\ valid' = valid \cup {minted + 1}
          /\ Answer(c, Ok(minted + 1, minted + 1, lifetime))
       \/ /\ Answer(c, Ok(0, 0, NumToString(0)))
          /\ UNCHANGED <<minted, valid>>
       \/ /\ Answer(c, Failure("rejected"))
          /\ UNCHANGED <<minted, valid>>
    /\ UNCHANGED <<system, guard, libVars, storeVars, reqs, now, localStorage, client, config, refreshInterval,
                   currentIdToken, currentRefreshToken, expiresAt, state,
                   timers, inits, userCalls, failedRts, rotating, lifetime,
                   lastOp>>

\* fetch() rejects: the request never reached the provider
NetworkFail(c) ==
    /\ system = "cache"
    /\ c \in calls /\ c.resp.type = "pending"
    /\ Answer(c, Failure("network"))
    /\ UNCHANGED <<system, guard, libVars, storeVars, reqs, now, localStorage, client, config, refreshInterval,
                   currentIdToken, currentRefreshToken, expiresAt, state,
                   timers, inits, userCalls, failedRts, providerVars, lastOp>>

(***************************************************************************)
(* Initial states.                                                         *)
(***************************************************************************)
\* a request slot of the server before its request arrives; exchanges
\* counts the calls of firebaseClient.refreshToken made for the request
IdleReq == [pc |-> "idle", kind |-> "none", data |-> Null, status |-> 0,
            user |-> Null, exchanges |-> 0]

\* the route guard before a request reaches it; event.locals starts empty
IdleGuard ==
    [pc |-> "idle", kind |-> "none", policy |-> <<>>, autoRefresh |-> FALSE,
     manager |-> "none", verify |-> FALSE, redirectTo |-> Null,
     pathname |-> <<>>, search |-> <<>>, cookie |-> Null,
     locals |-> [assigned |-> FALSE, user |-> Null, authenticated |-> FALSE,
                 shouldRefreshToken |-> FALSE],
     answer |-> "none", exchanges |-> 0, outcome |-> "none",
     location |-> Null]

\* the session cookie codec before it is applied to anything
IdleCodec ==
    [pc |-> "idle", op |-> "none",
     config |-> [name |-> <<>>, path |-> <<>>, secure |-> FALSE],
     header |-> <<>>, bundle |-> Null, envelope |-> <<>>,
     threw |-> FALSE, result |-> Null]

\* createAuthHandle before a request reaches it
IdleRoutes ==
    [pc |-> "idle", enableCallback |-> FALSE, method |-> "none",
     pathname |-> <<>>, authorization |-> FALSE, operation |-> "none",
     status |-> 0, body |-> "none"]

\* IdentityPlatform as the module is loaded: no instance, no call made
IdlePlatform == [instance |-> Null, constructed |-> 0, calls |-> <<>>]

\* sequence() before it composed anything
IdleChain == [pc |-> "idle", handlers |-> <<>>, stack |-> <<>>,
              invoked |-> <<>>, response |-> <<>>]

InitLibVars ==
    /\ codec = IdleCodec
    /\ routes = IdleRoutes
    /\ platform = IdlePlatform
    /\ chain = IdleChain

\* authEvents as store.ts constructs it: no event; no operation ran
NoEvents == [events |-> <<>>, ops |-> 0]

\* the Svelte stores as store.ts constructs them; nobody waits yet
InitStoreVars ==
    /\ user = Null
    /\ authState = "loading"
    /\ loading = FALSE
    /\ error = Null
    /\ fetches = {}
    /\ waiter = "none"
    /\ authEvents = NoEvents

InitProvider ==
    /\ rotating \in BOOLEAN
    /\ valid = {1}
    /\ minted = 1
    /\ lifetime \in ExpiresIn

InitCacheVars ==
    /\ client = FALSE
    /\ config = Null
    /\ refreshInterval = Null
    /\ currentIdToken = Null
    /\ currentRefreshToken = Null
    /\ expiresAt = Null
    /\ state = initialState
    /\ timers = {}
    /\ calls = {}
    /\ inits = 0
    /\ userCalls = 0
    /\ failedRts = {}

\* storage as a previous page load may have left it: nothing, a bundle that
\* is fresh, inside the refresh buffer or expired, or an unparsable user
InitialStorages ==
    {EmptyStorage,
     PersistedBundle(Now0 + 3600 * 1000),
     PersistedBundle(Now0 + 60 * 1000),
     [PersistedBundle(Now0 + 60 * 1000)
        EXCEPT ![STORAGE_KEYS.USER] = Some(Text(0))]}

InitCache ==
    /\ system = "cache"
    /\ now = Now0
    /\ localStorage \in InitialStorages
    /\ InitCacheVars
    /\ InitStoreVars
    /\ InitLibVars
    /\ reqs = [r \in 1..MaxReqs |-> IdleReq]
    /\ InitProvider
    /\ guard = IdleGuard
    /\ lastOp = "none"

(***************************************************************************)
(* Specification of the cache.                                             *)
(***************************************************************************)
CacheNext ==
    \/ \E cfg \in Configs : init(cfg)
    \/ \E t \in timers : TimerFire(t)
    \/ \E c \in calls : RefreshResolve(c)
    \/ \E kind \in {"signIn", "signUp"} : SignIn(kind)
    \/ \E c \in calls : SignInResolve(c)
    \/ signOut
    \/ deleteAccount
    \/ \E c \in calls : DeleteResolve(c)
    \/ Advance
    \/ \E c \in calls : ProviderExchange(c)
    \/ \E c \in calls : ProviderSignIn(c)
    \/ \E c \in calls : ProviderDelete(c)
    \/ \E c \in calls : NetworkFail(c)

SpecCache == InitCache /\ [][CacheNext]_vars

\* the cache of an application that also updates the profile
ProfileNext ==
    \/ CacheNext
    \/ updateProfile
    \/ \E c \in calls : UpdateProfileResolve(c)
    \/ \E c \in calls : ProviderUpdateProfile(c)

SpecProfile == InitCache /\ [][ProfileNext]_vars
(***************************************************************************)
(* Server: AuthHandler.handleRefresh / handleGetUser over                  *)
(* SessionManager.verifySessionCookie.  A request's handler touches only   *)
(* its own locals, so an await and the code after it are one step.         *)
(***************************************************************************)
SessionData(at, rt, exp) == [uid |-> "alice", accessToken |-> at,
                             refreshToken |-> rt, expirationTime |-> exp]
\* the cookie header: absent, undecodable, or an encoded SessionData
encodeSession(d) == [kind |-> "json", val |-> d]
parseSessionData(cookieValue) ==
    IF cookieValue.kind = "json" THEN Some(cookieValue.val) ELSE Null
Cookies == {Null, Some(Text(0)),
            Some(encodeSession(SessionData(1, 1, Now0 - 60 * 1000))),
            Some(encodeSession(SessionData(1, 1, Now0 + 3600 * 1000)))}

\* the answer of securetoken /token to an exchange of rt: the new
\* SessionData fields, or a failure (rejected, or the call failed)
ExchangeAnswers(rt) ==
    (IF rt \in valid
     THEN {[ok |-> TRUE, idToken |-> minted + 1,
            refreshToken |-> IF rotating THEN minted + 1 ELSE rt]}
     ELSE {})
    \cup {[ok |-> FALSE, idToken |-> 0, refreshToken |-> 0]}
ProviderAfter(rt, a) ==
    /\ minted' = IF a.ok THEN minted + 1 ELSE minted
    /\ valid' = IF a.ok /\ rotating THEN (valid \ {rt}) \cup {minted + 1}
                ELSE valid
    /\ UNCHANGED <<rotating, lifetime>>

\* handleRefresh after getCurrentUser returned u; handleGetUser likewise
afterGetCurrentUser(q, u) ==
    IF u = Null
    THEN [q EXCEPT !.pc = "done", !.status = 401, !.user = Null]
    ELSE IF q.kind = "refresh"
         THEN [q EXCEPT !.pc = "refresh", !.user = u,
                        !.exchanges = q.exchanges + 1]
         ELSE [q EXCEPT !.pc = "done", !.status = 200, !.user = u]

\* a request arrives: getCurrentUser and verifySessionCookie up to the
\* first await
Arrive(r, kind, cookie) ==
    LET q == [reqs[r] EXCEPT !.kind = kind]
        sessionData == IF cookie = Null THEN Null
                       ELSE parseSessionData(cookie[1])
    IN  /\ system = "server"
        /\ reqs[r].pc = "idle"
        /\ reqs' = [reqs EXCEPT ![r] =
              IF sessionData = Null THEN afterGetCurrentUser(q, Null)
              ELSE IF now > sessionData[1].expirationTime
                   THEN [q EXCEPT !.pc = "verifyRefresh", !.data = sessionData,
                                  !.exchanges = 1]
                   ELSE [q EXCEPT !.pc = "verifyToken", !.data = sessionData]]
        /\ UNCHANGED <<system, guard, libVars, now, localStorage, cacheVars, storeVars,
                       providerVars, lastOp>>

\* verifySessionCookie resumes after `await firebaseClient.refreshToken`
VerifyRefreshed(r) ==
    LET q == reqs[r]
        d == q.data[1]
    IN  /\ system = "server"
        /\ q.pc = "verifyRefresh"
        /\ \E a \in ExchangeAnswers(d.refreshToken) :
              /\ ProviderAfter(d.refreshToken, a)
              /\ reqs' = [reqs EXCEPT ![r] =
                    IF a.ok
                    THEN afterGetCurrentUser(q,
                           Some(SessionData(a.idToken, a.refreshToken,
                                            now + parseInt(lifetime) * 1000)))
                    ELSE afterGetCurrentUser(q, Null)]
        /\ UNCHANGED <<system, guard, libVars, now, localStorage, cacheVars, storeVars, lastOp>>

\* verifySessionCookie resumes after `await firebaseClient.verifyIdToken`
VerifiedIdToken(r) ==
    LET q == reqs[r] IN
    /\ system = "server"
    /\ q.pc = "verifyToken"
    /\ \E isValid \in BOOLEAN :
          reqs' = [reqs EXCEPT ![r] =
                     afterGetCurrentUser(q, IF isValid THEN q.data ELSE Null)]
    /\ UNCHANGED <<system, guard, libVars, now, localStorage, cacheVars, storeVars,
                   providerVars, lastOp>>

\* handleRefresh resumes after `await firebaseClient.refreshToken`
HandleRefreshed(r) ==
    LET q == reqs[r]
        u == q.user[1]
    IN  /\ system = "server"
        /\ q.pc = "refresh"
        /\ \E a \in ExchangeAnswers(u.refreshToken) :
              /\ ProviderAfter(u.refreshToken, a)
              /\ reqs' = [reqs EXCEPT ![r] =
                    IF a.ok
                    THEN [q EXCEPT !.pc = "done", !.status = 200,
                            !.user = Some(SessionData(a.idToken, a.refreshToken,
                                            now + parseInt(lifetime) * 1000))]
                    ELSE \* the throw leaves handle(), which returned the
                         \* promise without awaiting it: no Response
                         [q EXCEPT !.pc = "rejected", !.user = Null]]
        /\ UNCHANGED <<system, guard, libVars, now, localStorage, cacheVars, storeVars, lastOp>>


(***************************************************************************)
(* AuthStore (client/store.ts): Svelte stores fed by the /api/auth routes. *)
(***************************************************************************)
StoreUser(n, exp) == [uid |-> "alice", accessToken |-> n,
                      expirationTime |-> exp]
\* the users a response of the server may carry
ServerUsers == {StoreUser(1, Now0 + 3600 * 1000), StoreUser(2, Now0 + 3600 * 1000)}

JSONstringify(v) == [kind |-> "json", val |-> v]
JSONparses(s) == s.kind = "json"

NewFetch(op, parsed) ==
    [id |-> CHOOSE i \in 1..(Cardinality(fetches) + 1) :
                \A f \in fetches : f.id # i,
     op |-> op, parsed |-> parsed, resp |-> [type |-> "pending", user |-> Null]]

\* the subscriber of waitForAuthInit, run by authState.set(value): a
\* pending promise resolves once the state is not 'loading'
notified(w, value) ==
    IF w = "pending" /\ value # "loading" THEN "resolved" ELSE w

\* the systems in which the operations of AuthStore run: "store", and
\* "events", which follows the event log as well.  The log is written by
\* these operations and read by none of them.
StoreSystems == {"store", "events"}
\* operations of the store run from the initial state on, counted in
\* system "events"
MaxStoreOps == 4
storeRuns == system \in StoreSystems /\ authEvents.ops < MaxStoreOps

\* the AuthEvent built by addAuthEvent(type, user, data)
AuthEvent(type, u, data) ==
    [type |-> type, user |-> u, data |-> data, timestamp |-> now]
\* Array.prototype.slice(-n)
sliceLast(events, n) ==
    IF Len(events) > n THEN SubSeq(events, Len(events) - n + 1, Len(events))
    ELSE events
\* the updater of addAuthEvent keeping one event more: events.slice(-10)
addAuthEvent_sliceTen(events, event) == Append(sliceLast(events, 10), event)
\* the updater of addAuthEvent: events => [...events.slice(-9), event]
addAuthEvent(events, event) == Append(sliceLast(events, 9), event)
RECURSIVE addAuthEvents(_, _)
addAuthEvents(events, new) ==
    IF new = <<>> THEN events
    ELSE addAuthEvents(addAuthEvent(events, Head(new)), Tail(new))
\* authEvents after an operation that called addAuthEvent for each event
\* of `new`
logged(new) ==
    IF system = "events"
    THEN [events |-> addAuthEvents(authEvents.events, new),
          ops |-> authEvents.ops + 1]
    ELSE authEvents
\* authEvents after an operation that called authEvents.set([])
emptied ==
    IF system = "events"
    THEN [events |-> <<>>, ops |-> authEvents.ops + 1]
    ELSE authEvents
\* the event that AuthStore.setUser(newUser) adds
setUserEvent(newUser) ==
    IF newUser # Null THEN AuthEvent("signIn", newUser, Null)
    ELSE AuthEvent("signOut", Null, Null)

\* the body of AuthStore.setUser(newUser), but for its event
setUserBody(newUser) ==
    /\ user' = newUser
    /\ authState' = IF newUser # Null THEN "authenticated"
                    ELSE "unauthenticated"
    /\ waiter' = notified(waiter, authState')
    /\ localStorage' =
          [localStorage EXCEPT ![StoreKey] =
              IF newUser # Null THEN Some(JSONstringify(newUser[1]))
              ELSE Null]

\* AuthStore.setUser(newUser), called by the application
setUser(newUser) ==
    /\ storeRuns
    /\ setUserBody(newUser)
    /\ authEvents' = logged(<<setUserEvent(newUser)>>)
    /\ lastOp' = IF newUser # Null THEN "setUser" ELSE "setUserNull"
    /\ UNCHANGED <<system, guard, libVars, now, cacheVars, reqs, providerVars, loading, error,
                   fetches>>

\* { ...currentUser, ...updates }
spread(currentUser, updates) ==
    [k \in DOMAIN currentUser \cup DOMAIN updates |->
        IF k \in DOMAIN updates THEN updates[k] ELSE currentUser[k]]
\* the updater of AuthStore.updateUser without `if (!currentUser) return null`
updatedUser_noNullCheck(currentUser, updates) ==
    IF currentUser = Null THEN Some(updates)
    ELSE Some(spread(currentUser[1], updates))
\* the updater of AuthStore.updateUser: the user the store holds afterwards
updatedUser(currentUser, updates) ==
    IF currentUser = Null THEN Null
    ELSE Some(spread(currentUser[1], updates))

\* the updates an application passes to updateUser
Updates == {[accessToken |-> 2]}

\* AuthStore.updateUser(updates)
updateUser(updates) ==
    /\ storeRuns
    /\ user' = updatedUser(user, updates)
    /\ IF user # Null
       THEN /\ localStorage' =
                 [localStorage EXCEPT ![StoreKey] = Some(JSONstringify(user'[1]))]
            /\ authEvents' = logged(<<AuthEvent("profileUpdate", user', Some(updates))>>)
       ELSE /\ authEvents' = logged(<<>>)
            /\ UNCHANGED localStorage
    /\ lastOp' = "updateUser"
    /\ UNCHANGED <<system, guard, libVars, now, cacheVars, reqs, providerVars, authState,
                   loading, error, fetches, waiter>>

\* AuthStore.clear()
clear ==
    /\ storeRuns
    /\ user' = Null
    /\ authState' = "unauthenticated"
    /\ loading' = FALSE
    /\ error' = Null
    /\ authEvents' = emptied
    /\ waiter' = notified(waiter, "unauthenticated")
    /\ localStorage' = [localStorage EXCEPT ![StoreKey] = Null]
    /\ lastOp' = "clear"
    /\ UNCHANGED <<system, guard, libVars, now, cacheVars, reqs, providerVars, fetches>>

\* AuthStore.initialize() up to its first await (or through its catch)
initialize ==
    LET savedUser == localStorage[StoreKey] IN
    /\ storeRuns
    /\ Cardinality(fetches) < MaxInFlight
    /\ lastOp' = "initialize"
    /\ IF savedUser # Null /\ ~JSONparses(savedUser[1])
       THEN \* JSON.parse throws: catch, AuthStore.setUser(null)
            /\ setUserBody(Null)
            /\ authEvents' = logged(<<setUserEvent(Null)>>)
            /\ UNCHANGED fetches
       ELSE /\ authState' = "loading"
            /\ fetches' = fetches \cup
                 {IF savedUser = Null THEN NewFetch("fetchUser", Null)
                  ELSE IF /\ savedUser[1].val.expirationTime # 0
                          /\ now > savedUser[1].val.expirationTime
                       THEN NewFetch("refresh", Null)
                       ELSE NewFetch("validate", Some(savedUser[1].val))}
            /\ authEvents' = logged(<<>>)
            /\ UNCHANGED <<user, localStorage, waiter>>
    /\ UNCHANGED <<system, guard, libVars, now, cacheVars, reqs, providerVars, loading, error>>

\* AuthStore.refreshToken() up to `await fetch('/api/auth/refresh')`
refreshToken ==
    /\ storeRuns
    /\ Cardinality(fetches) < MaxInFlight
    /\ fetches' = fetches \cup {NewFetch("refresh", Null)}
    /\ authEvents' = logged(<<>>)
    /\ lastOp' = "refreshCall"
    /\ UNCHANGED <<system, guard, libVars, now, localStorage, cacheVars, reqs, providerVars,
                   user, authState, loading, error, waiter>>

\* the server answers a fetch: ok with a user, ok without one, a non-ok
\* status, or the fetch rejects
FetchAnswer(f) ==
    /\ storeRuns
    /\ f \in fetches /\ f.resp.type = "pending"
    /\ \E r \in {[type |-> "ok", user |-> Some(u)] : u \in ServerUsers}
             \cup {[type |-> t, user |-> Null] : t \in {"okEmpty", "notOk", "failed"}} :
          fetches' = (fetches \ {f}) \cup {[f EXCEPT !.resp = r]}
    /\ authEvents' = logged(<<>>)
    /\ UNCHANGED <<system, guard, libVars, now, localStorage, cacheVars, reqs, providerVars,
                   user, authState, loading, error, waiter, lastOp>>

\* the fetches of AuthStore itself, and those sent through authRequest
StoreFetchOps == {"fetchUser", "validate", "refresh"}
AuthRequestOps == {"signIn", "signOut", "getCurrentUser"}

\* refreshToken / fetchCurrentUser / validateCurrentUser (and initialize
\* behind it) resume after the fetch
FetchResolve(f) ==
    /\ storeRuns
    /\ f \in fetches /\ f.op \in StoreFetchOps /\ f.resp.type # "pending"
    /\ fetches' = fetches \ {f}
    /\ IF f.op = "validate"
       THEN \* isValid = response.ok
            IF f.resp.type \in {"ok", "okEmpty"}
            THEN /\ setUserBody(f.parsed)
                 /\ authEvents' = logged(<<setUserEvent(f.parsed)>>)
                 /\ lastOp' = "validated"
            ELSE /\ setUserBody(Null)
                 /\ authEvents' = logged(<<setUserEvent(Null)>>)
                 /\ lastOp' = "invalidated"
       ELSE IF f.resp.type = "ok"
            THEN /\ setUserBody(f.resp.user)
                 /\ authEvents' = logged(
                      <<setUserEvent(f.resp.user)>> \o
                      (IF f.op = "refresh"
                       THEN <<AuthEvent("tokenRefresh", f.resp.user, Null)>>
                       ELSE <<>>))
                 /\ lastOp' = IF f.op = "refresh" THEN "storeRefreshed"
                              ELSE "fetchedUser"
            ELSE /\ setUserBody(Null)
                 /\ authEvents' = logged(<<setUserEvent(Null)>>)
                 /\ lastOp' = IF f.op = "refresh" THEN "storeRefreshFailed"
                              ELSE "noUser"
    /\ UNCHANGED <<system, guard, libVars, now, cacheVars, reqs, providerVars, loading, error>>

\* authRequest(endpoint, method, body) of the client operations signIn,
\* signOut and getCurrentUser, up to `await fetch`
authRequest(op) ==
    /\ storeRuns
    /\ Cardinality(fetches) < MaxInFlight
    /\ loading' = TRUE
    /\ error' = Null
    /\ fetches' = fetches \cup {NewFetch(op, Null)}
    /\ authEvents' = logged(<<>>)
    /\ lastOp' = "authRequest"
    /\ UNCHANGED <<system, guard, libVars, now, localStorage, cacheVars, reqs, providerVars,
                   user, authState, waiter>>

\* authRequest resumes after the fetch: its catch and finally, then the
\* operation that awaited it
AuthRequestResolve(f) ==
    LET succeeded == f.resp.type \in {"ok", "okEmpty"}
        \* what the operation passes to AuthStore.setUser, if it calls it
        passed == IF f.op = "signOut" \/ ~succeeded THEN Null ELSE f.resp.user
        callsSetUser == succeeded \/ f.op = "getCurrentUser"
    IN  /\ storeRuns
        /\ f \in fetches /\ f.op \in AuthRequestOps /\ f.resp.type # "pending"
        /\ fetches' = fetches \ {f}
        /\ loading' = FALSE
        /\ error' = IF succeeded THEN error ELSE Some("Error")
        /\ IF callsSetUser
           THEN /\ setUserBody(passed)
                /\ authEvents' = logged(<<setUserEvent(passed)>>)
           ELSE /\ authEvents' = logged(<<>>)
                /\ UNCHANGED <<user, authState, waiter, localStorage>>
        /\ lastOp' = IF succeeded THEN "authRequestDone" ELSE "authRequestFailed"
        /\ UNCHANGED <<system, guard, libVars, now, cacheVars, reqs, providerVars>>

SavedUsers ==
    {Null,
     Some(JSONstringify(StoreUser(1, Now0 + 3600 * 1000))),
     Some(JSONstringify(StoreUser(1, Now0 + 60 * 1000))),
     Some(JSONstringify(StoreUser(1, Now0 - 60 * 1000))),
     Some(Text(0))}

InitStore ==
    /\ system = "store"
    /\ now = Now0
    /\ \E saved \in SavedUsers :
          localStorage = [EmptyStorage EXCEPT ![StoreKey] = saved]
    /\ InitCacheVars
    /\ InitStoreVars
    /\ InitLibVars
    /\ reqs = [r \in 1..MaxReqs |-> IdleReq]
    /\ InitProvider
    /\ guard = IdleGuard
    /\ lastOp = "none"

StoreNext ==
    \/ \E u \in {Null} \cup {Some(x) : x \in ServerUsers} : setUser(u)
    \/ clear
    \/ initialize
    \/ refreshToken
    \/ \E f \in fetches : FetchAnswer(f)
    \/ \E f \in fetches : FetchResolve(f)

SpecStore == InitStore /\ [][StoreNext]_vars

\* the AuthStore of an application that also calls updateUser
UpdatingNext ==
    \/ StoreNext
    \/ \E updates \in Updates : updateUser(updates)

\* the provider plays no part in the store
InitUpdating ==
    /\ InitStore
    /\ ~rotating
    /\ lifetime = NumToString(3600)

SpecUpdating == InitUpdating /\ [][UpdatingNext]_vars

\* the same together with the client operations built on authRequest
ClientNext ==
    \/ UpdatingNext
    \/ \E op \in AuthRequestOps : authRequest(op)
    \/ \E f \in fetches : AuthRequestResolve(f)

SpecClient == InitUpdating /\ [][ClientNext]_vars

\* the log after k earlier calls of setUser(null), one per millisecond
EarlierSignOuts(k) ==
    [i \in 1..k |-> [type |-> "signOut", user |-> Null, data |-> Null,
                     timestamp |-> Now0 - (k - i + 1)]]

\* the store as constructed, or after 9 or 10 earlier calls of
\* setUser(null); from here on the log is followed
InitEvents ==
    /\ system = "events"
    /\ now = Now0
    /\ \E k \in {0, 9, 10} :
          /\ authEvents = [events |-> EarlierSignOuts(k), ops |-> 0]
          /\ authState = IF k = 0 THEN "loading" ELSE "unauthenticated"
          /\ \E saved \in (IF k = 0 THEN SavedUsers ELSE {Null}) :
                localStorage = [EmptyStorage EXCEPT ![StoreKey] = saved]
    /\ user = Null
    /\ loading = FALSE
    /\ error = Null
    /\ fetches = {}
    /\ waiter = "none"
    /\ InitCacheVars
    /\ InitLibVars
    /\ reqs = [r \in 1..MaxReqs |-> IdleReq]
    /\ rotating = FALSE
    /\ valid = {1}
    /\ minted = 1
    /\ lifetime = NumToString(3600)
    /\ guard = IdleGuard
    /\ lastOp = "none"

SpecEvents == InitEvents /\ [][UpdatingNext]_vars

InitServer ==
    /\ system = "server"
    /\ now = Now0
    /\ localStorage = EmptyStorage
    /\ InitCacheVars
    /\ InitStoreVars
    /\ InitLibVars
    /\ reqs = [r \in 1..MaxReqs |-> IdleReq]
    /\ InitProvider
    /\ guard = IdleGuard
    /\ lastOp = "none"

ServerNext ==
    \/ \E r \in 1..MaxReqs, kind \in {"user", "refresh"}, cookie \in Cookies :
          Arrive(r, kind, cookie)
    \/ \E r \in 1..MaxReqs : VerifyRefreshed(r)
    \/ \E r \in 1..MaxReqs : VerifiedIdToken(r)
    \/ \E r \in 1..MaxReqs : HandleRefreshed(r)

SpecServer == InitServer /\ [][ServerNext]_vars

(***************************************************************************)
(* The repository as a whole: one of its three parts runs.                 *)
(***************************************************************************)
Init == InitCache \/ InitStore \/ InitServer
Next == CacheNext \/ StoreNext \/ ServerNext
Spec == Init /\ [][Next]_vars
(***************************************************************************)
(* The cache against a provider that rotates refresh tokens, on a network  *)
(* that delivers every call: the only refresh triggers are hydration and   *)
(* the timer, and every token the cache holds was valid when it got it.    *)
(***************************************************************************)
InitRotating ==
    /\ InitCache
    /\ rotating
    /\ localStorage # EmptyStorage

RotatingNext ==
    \/ \E cfg \in {c \in Configs : c.persistence} : init(cfg)
    \/ \E t \in timers : TimerFire(t)
    \/ \E c \in calls : RefreshResolve(c)
    \/ Advance
    \/ \E c \in calls : ProviderExchange(c)

SpecRotating == InitRotating /\ [][RotatingNext]_vars

(***************************************************************************)
(* The route guard: AuthMiddleware (server/middleware.ts) over the         *)
(* pluggable session manager, createAuthGuard, and protectRoute.           *)
(* Pathnames and patterns are sequences of characters.                     *)
(***************************************************************************)
MaxPolicyLen == 2

Pathnames == {<<"/">>, <<"/", "a">>, <<"/", "a", "/", "b">>, <<"/", "a", "b">>,
              <<"/", "b">>}
Patterns == {<<"/">>, <<"/", "a">>, <<"/", "a", "/", "*">>, <<"/", "*">>,
             <<"/", "a", "*">>}
Searches == {<<>>, <<"?", "q">>}
LoginPath == <<"/", "l">>

\* String.prototype.startsWith / endsWith / slice(0, -n)
startsWith(str, prefix) ==
    Len(prefix) <= Len(str) /\ SubSeq(str, 1, Len(prefix)) = prefix
endsWith(str, suffix) ==
    /\ Len(suffix) <= Len(str)
    /\ SubSeq(str, Len(str) - Len(suffix) + 1, Len(str)) = suffix
sliceEnd(str, n) ==
    IF Len(str) > n THEN SubSeq(str, 1, Len(str) - n) ELSE <<>>

\* the callback of isPublicPath / isProtectedPath
pathMatches(pathname, path) ==
    IF endsWith(path, <<"*">>)
    THEN startsWith(pathname, sliceEnd(path, 1))
    ELSE pathname = path \/ startsWith(pathname, path \o <<"/">>)

\* matchRoute(pathname, pattern) of shared/utils.ts
matchRoute(pathname, pattern) ==
    IF pattern = pathname THEN TRUE
    ELSE IF endsWith(pattern, <<"/", "*">>)
         THEN startsWith(pathname, sliceEnd(pattern, 2))
         ELSE FALSE
matchesAnyRoute(pathname, patterns) ==
    \E i \in DOMAIN patterns : matchRoute(pathname, patterns[i])

\* a route policy as the application declares it: entries in order; the
\* guards receive it as one list of public and one of protected patterns
PolicyEntries == [pattern : Patterns, classification : {"public", "protected"}]
RECURSIVE PoliciesUpTo(_)
PoliciesUpTo(n) ==
    IF n = 0 THEN {<<>>}
    ELSE LET shorter == PoliciesUpTo(n - 1)
         IN  shorter \cup {Append(q, e) : q \in shorter, e \in PolicyEntries}
Policies == PoliciesUpTo(MaxPolicyLen)
RECURSIVE PatternsOf(_, _)
PatternsOf(policy, classification) ==
    IF policy = <<>> THEN <<>>
    ELSE (IF policy[1].classification = classification
          THEN <<policy[1].pattern>> ELSE <<>>)
         \o PatternsOf(Tail(policy), classification)
publicPaths(policy) == PatternsOf(policy, "public")
protectedPaths(policy) == PatternsOf(policy, "protected")

isPublicPath(pathname, policy) ==
    \E i \in DOMAIN publicPaths(policy) :
        pathMatches(pathname, publicPaths(policy)[i])
isProtectedPath(pathname, policy) ==
    \E i \in DOMAIN protectedPaths(policy) :
        pathMatches(pathname, protectedPaths(policy)[i])

\* what checkRouteProtection / createAuthGuard make of a pathname
Classify(kind, pathname, policy) ==
    IF kind = "middleware"
    THEN IF isPublicPath(pathname, policy) THEN "Public"
         ELSE IF isProtectedPath(pathname, policy) THEN "Protected"
         ELSE "Unmatched"
    ELSE IF matchesAnyRoute(pathname, publicPaths(policy)) THEN "Public"
         ELSE IF matchesAnyRoute(pathname, protectedPaths(policy))
              THEN "Protected"
              ELSE "Unmatched"

\* the cookie header of a request to a guarded route
GuardCookies ==
    {Null, Some(Text(0))}
    \cup {Some(encodeSession(SessionData(1, 1, Now0 + d))) :
            d \in {0 - 60 * 1000, 60 * 1000, BufferMs, 3600 * 1000}}

\* DefaultCookieSessionManager.verifySession(cookieValue)
verifySession(cookieValue) ==
    LET sessionData == parseSessionData(cookieValue) IN
    IF sessionData = Null THEN Null
    ELSE IF now > sessionData[1].expirationTime THEN Null
    ELSE sessionData

\* AuthMiddleware.shouldRefreshToken(user)
shouldRefreshToken(u) ==
    IF u.expirationTime = 0 THEN FALSE
    ELSE (u.expirationTime - now) < 5 * 60 * 1000

\* an addAuthToLocals whose catch leaves locals as they are
localsAfterVerify_noCatch(locals, threw, result, autoRefresh) ==
    IF threw
    THEN locals
    ELSE [locals EXCEPT !.assigned = TRUE, !.user = result,
                        !.authenticated = (result # Null),
                        !.shouldRefreshToken =
                            IF result # Null /\ autoRefresh
                               /\ shouldRefreshToken(result[1])
                            THEN TRUE ELSE @]
\* event.locals after addAuthToLocals got `result` from verifySession, or
\* caught what the session manager threw
localsAfterVerify(locals, threw, result, autoRefresh) ==
    IF threw
    THEN [locals EXCEPT !.assigned = TRUE, !.user = Null,
                        !.authenticated = FALSE]
    ELSE [locals EXCEPT !.assigned = TRUE, !.user = result,
                        !.authenticated = (result # Null),
                        !.shouldRefreshToken =
                            IF result # Null /\ autoRefresh
                               /\ shouldRefreshToken(result[1])
                            THEN TRUE ELSE @]

\* checkRouteProtection that redirects only requests without a cookie
checkRouteProtection_cookieOnly(g) ==
    IF isPublicPath(g.pathname, g.policy) THEN [g EXCEPT !.pc = "done",
                                                !.outcome = "resolve"]
    ELSE IF isProtectedPath(g.pathname, g.policy) /\ g.cookie = Null
         THEN [g EXCEPT !.pc = "done", !.outcome = "redirect",
                 !.location = Some([path |-> LoginPath,
                                    redirect |-> Some(g.pathname)])]
         ELSE [g EXCEPT !.pc = "done", !.outcome = "resolve"]
\* checkRouteProtection(event) and the end of the handle
checkRouteProtection(g) ==
    IF isPublicPath(g.pathname, g.policy) THEN [g EXCEPT !.pc = "done",
                                                !.outcome = "resolve"]
    ELSE IF isProtectedPath(g.pathname, g.policy) /\ ~g.locals.authenticated
         THEN [g EXCEPT !.pc = "done", !.outcome = "redirect",
                 !.location = Some([path |-> LoginPath,
                                    redirect |-> Some(g.pathname)])]
         ELSE [g EXCEPT !.pc = "done", !.outcome = "resolve"]

\* what a session manager supplied by the application may return
CustomResults == {Null, Some(SessionData(1, 1, Now0 + 60 * 1000)),
                  Some(SessionData(1, 1, Now0 + 3600 * 1000))}

\* the Handle of AuthMiddleware.createHandle up to `await verifySession`,
\* or to its end when the request carries no cookie header
MiddlewareHandle(pathname, cookie) ==
    LET g == [guard EXCEPT !.pathname = pathname, !.cookie = cookie]
    IN  /\ system = "guard"
        /\ guard.kind = "middleware"
        /\ guard.pc = "idle"
        /\ guard' = IF cookie = Null
                    THEN checkRouteProtection(
                           [g EXCEPT !.locals.assigned = TRUE,
                                     !.locals.user = Null,
                                     !.locals.authenticated = FALSE])
                    ELSE [g EXCEPT !.pc = "verify"]
        /\ UNCHANGED <<system, libVars, now, localStorage, cacheVars, storeVars, reqs,
                       providerVars, lastOp>>

\* addAuthToLocals resumes after verifySession, then checkRouteProtection
MiddlewareVerified ==
    /\ system = "guard"
    /\ guard.pc = "verify"
    /\ \E threw \in IF guard.manager = "default" THEN {FALSE} ELSE BOOLEAN,
          result \in IF guard.manager = "default"
                     THEN {verifySession(guard.cookie[1])}
                     ELSE CustomResults :
          guard' = checkRouteProtection(
                      [guard EXCEPT
                          !.answer = IF threw THEN "throws"
                                     ELSE IF result = Null THEN "null"
                                     ELSE "user",
                          !.locals = localsAfterVerify(@, threw, result,
                                                       guard.autoRefresh)])
    /\ UNCHANGED <<system, libVars, now, localStorage, cacheVars, storeVars, reqs,
                   providerVars, lastOp>>

\* createAuthGuard: the request is not let through
deny(g) ==
    IF g.redirectTo # Null
    THEN [g EXCEPT !.pc = "done", !.outcome = "redirect",
            !.location = Some([path |-> g.redirectTo[1], redirect |-> Null])]
    ELSE [g EXCEPT !.pc = "done", !.outcome = "unauthorized"]

\* a createAuthGuard that lets through only what is declared public
AuthGuardHandle_denyUnmatched(pathname) ==
    LET g == [guard EXCEPT !.pathname = pathname]
    IN  /\ system = "guard"
        /\ guard.kind = "authGuard"
        /\ guard.pc = "idle"
        /\ guard' =
             IF matchesAnyRoute(pathname, publicPaths(g.policy))
             THEN [g EXCEPT !.pc = "done", !.outcome = "resolve"]
             ELSE IF g.verify THEN [g EXCEPT !.pc = "guardVerify"]
                  ELSE deny(g)
        /\ UNCHANGED <<system, libVars, now, localStorage, cacheVars, storeVars, reqs,
                       providerVars, lastOp>>
\* the Handle of createAuthGuard up to `await config.verify(event)`
AuthGuardHandle(pathname) ==
    LET g == [guard EXCEPT !.pathname = pathname]
    IN  /\ system = "guard"
        /\ guard.kind = "authGuard"
        /\ guard.pc = "idle"
        /\ guard' =
             IF matchesAnyRoute(pathname, publicPaths(g.policy))
             THEN [g EXCEPT !.pc = "done", !.outcome = "resolve"]
             ELSE IF matchesAnyRoute(pathname, protectedPaths(g.policy))
                  THEN IF g.verify THEN [g EXCEPT !.pc = "guardVerify"]
                       ELSE deny(g)
                  ELSE [g EXCEPT !.pc = "done", !.outcome = "resolve"]
        /\ UNCHANGED <<system, libVars, now, localStorage, cacheVars, storeVars, reqs,
                       providerVars, lastOp>>

\* createAuthGuard resumes after config.verify(event)
AuthGuardVerified(answer) ==
    /\ system = "guard"
    /\ guard.pc = "guardVerify"
    /\ guard' = IF answer = "throws"
                THEN [guard EXCEPT !.pc = "done", !.answer = answer,
                                   !.outcome = "thrown"]
                ELSE IF answer = "true"
                     THEN [guard EXCEPT !.pc = "done", !.answer = answer,
                                        !.outcome = "resolve"]
                     ELSE deny([guard EXCEPT !.answer = answer])
    /\ UNCHANGED <<system, libVars, now, localStorage, cacheVars, storeVars, reqs,
                   providerVars, lastOp>>

\* the load function made by protectRoute() with its default checks, on a
\* page whose locals.user an earlier hook has set
ProtectRouteLoad(pathname, search, localsUser) ==
    LET g == [guard EXCEPT !.pathname = pathname,
                           !.search = search,
                           !.locals.assigned = TRUE,
                           !.locals.user = localsUser,
                           !.locals.authenticated = (localsUser # Null)]
    IN  /\ system = "guard"
        /\ guard.kind = "protectRoute"
        /\ guard.pc = "idle"
        /\ guard' = IF localsUser = Null
                    THEN [g EXCEPT !.pc = "done", !.outcome = "redirect",
                            !.location = Some([path |-> LoginPath,
                                  redirect |-> Some(pathname \o search)])]
                    ELSE [g EXCEPT !.pc = "done", !.outcome = "resolve"]
        /\ UNCHANGED <<system, libVars, now, localStorage, cacheVars, storeVars, reqs,
                       providerVars, lastOp>>

\* the guards as the application constructs them: AuthMiddleware with its
\* policy, autoRefresh and session manager; createAuthGuard with its
\* policy, verify and redirectTo; protectRoute with its defaults
GuardConfigs ==
    {[IdleGuard EXCEPT !.kind = "middleware", !.policy = policy,
                       !.autoRefresh = autoRefresh, !.manager = manager] :
        policy \in Policies, autoRefresh \in BOOLEAN,
        manager \in {"default", "custom"}}
    \cup {[IdleGuard EXCEPT !.kind = "authGuard", !.policy = policy,
                            !.verify = verify, !.redirectTo = redirectTo] :
            policy \in Policies, verify \in BOOLEAN,
            redirectTo \in {Null, Some(LoginPath)}}
    \cup {[IdleGuard EXCEPT !.kind = "protectRoute"]}

InitGuard ==
    /\ system = "guard"
    /\ now = Now0
    /\ localStorage = EmptyStorage
    /\ InitCacheVars
    /\ InitStoreVars
    /\ InitLibVars
    /\ reqs = [r \in 1..MaxReqs |-> IdleReq]
    /\ guard \in GuardConfigs
    /\ rotating = FALSE /\ valid = {1} /\ minted = 1
    /\ lifetime = NumToString(3600)
    /\ lastOp = "none"

GuardNext ==
    \/ \E pathname \in Pathnames, cookie \in GuardCookies :
          MiddlewareHandle(pathname, cookie)
    \/ MiddlewareVerified
    \/ \E pathname \in Pathnames : AuthGuardHandle(pathname)
    \/ \E answer \in {"true", "false", "throws"} : AuthGuardVerified(answer)
    \/ \E pathname \in Pathnames, search \in Searches,
          localsUser \in CustomResults :
          ProtectRouteLoad(pathname, search, localsUser)

SpecGuard == InitGuard /\ [][GuardNext]_vars

(***************************************************************************)
(* The session cookie codec of DefaultCookieSessionManager                 *)
(* (server/session-manager): createSession, verifySession, clearSession,   *)
(* applied to cookie headers that hold several cookies and to values that  *)
(* are not what createSession wrote.  parseSessionData and verifySession   *)
(* above are these functions on a header that holds the session cookie     *)
(* alone with a complete SessionData.                                      *)
(***************************************************************************)
MaxCookies == 2

\* the session configurations: cookie name, path, secure
CodecConfigs ==
    [name : {<<"s">>, <<"x", "s">>, <<"Path">>}, path : {<<"/">>, <<"/", "a">>},
     secure : BOOLEAN]

\* what JSON.parse yields: an object (its fields, absent ones Null), null,
\* or a number
JsonObject(o) == [type |-> "object", obj |-> o]
NoFields ==
    [uid |-> Null, email |-> Null, emailVerified |-> Null,
     displayName |-> Null, photoURL |-> Null, accessToken |-> Null,
     refreshToken |-> Null, expirationTime |-> Null, createdAt |-> Null]
JsonNull == [type |-> "null", obj |-> NoFields]
JsonNumber == [type |-> "number", obj |-> NoFields]

\* a complete SessionData object
FullSessionData(exp) ==
    [NoFields EXCEPT !.uid = Some("alice"), !.email = Some("a@x"),
                     !.emailVerified = Some(TRUE),
                     !.accessToken = Some(1), !.refreshToken = Some(1),
                     !.expirationTime = Some(exp),
                     !.createdAt = Some(Now0 - 60 * 1000)]
RequiredFields == {"uid", "accessToken", "refreshToken", "expirationTime"}

\* the texts a cookie value may decode to: not JSON, or the JSON of a value
DecodedTexts ==
    {Text(0), JSONstringify(JsonNull), JSONstringify(JsonNumber)}
    \cup {JSONstringify(JsonObject(FullSessionData(Now0 + d))) :
            d \in {0 - 60 * 1000, 0, 60 * 1000}}
    \cup {JSONstringify(JsonObject(
              [FullSessionData(Now0 + 60 * 1000) EXCEPT ![f] = Null])) :
            f \in RequiredFields \cup {"createdAt"}}

\* Buffer.from(text).toString('base64'); lit is the literal text of a value
\* that is a cookie attribute
toBase64(text) == [empty |-> FALSE, strict |-> TRUE, text |-> text, lit |-> <<>>]
\* Buffer.from(value, 'base64').toString('utf-8'): never throws; a value
\* that is not base64 yields text that is not JSON
fromBase64(value) == IF value.strict THEN value.text ELSE Text(0)
EmptyValue == [empty |-> TRUE, strict |-> TRUE, text |-> Text(0), lit |-> <<>>]
NotBase64 == [empty |-> FALSE, strict |-> FALSE, text |-> Text(0), lit |-> <<>>]
Literal(chars) ==
    [empty |-> chars = <<>>, strict |-> FALSE, text |-> Text(0), lit |-> chars]
CookieValues == {toBase64(t) : t \in DecodedTexts} \cup {EmptyValue, NotBase64}

\* one `name=value` of a Cookie header, or one attribute of a Set-Cookie
Part(name, value) == [name |-> name, hasEq |-> TRUE, value |-> value]
Flag(name) == [name |-> name, hasEq |-> FALSE, value |-> EmptyValue]
CookieNames == {<<"s">>, <<"x", "s">>, <<"o">>}
RECURSIVE HeadersUpTo(_)
HeadersUpTo(n) ==
    IF n = 0 THEN {<<>>}
    ELSE LET shorter == HeadersUpTo(n - 1)
         IN  shorter \cup {Append(h, Part(c, v)) :
                              h \in shorter, c \in CookieNames, v \in CookieValues}
Headers == HeadersUpTo(MaxCookies)

\* cookieValue.match(new RegExp(`${name}=([^;]+)`)): the leftmost place of
\* the header where the name, '=' and at least one character follow
matchCookie(header, name) ==
    LET hits == {i \in DOMAIN header :
                    /\ header[i].hasEq
                    /\ endsWith(header[i].name, name)
                    /\ ~header[i].value.empty}
    IN  IF hits = {} THEN Null
        ELSE Some(header[CHOOSE i \in hits : \A j \in hits : i <= j].value)

\* DefaultCookieSessionManager.parseSessionData on a whole header
parseSessionHeader(cfg, header) ==
    LET match == matchCookie(header, cfg.name) IN
    IF match = Null THEN Null
    ELSE LET decodedData == fromBase64(match[1])
         IN  IF JSONparses(decodedData) THEN Some(decodedData.val)
             ELSE Null

\* an ISO date string, by the instant it names
toISOString(ms) == [iso |-> ms]

\* DefaultCookieSessionManager.sessionDataToUser: throws (RangeError of
\* toISOString) when createdAt is undefined
sessionDataToUser(d) ==
    [threw |-> d.createdAt = Null,
     user |-> [uid |-> d.uid, email |-> d.email,
               emailVerified |-> d.emailVerified,
               displayName |-> d.displayName, photoURL |-> d.photoURL,
               accessToken |-> d.accessToken,
               refreshToken |-> d.refreshToken,
               expirationTime |-> d.expirationTime,
               expiresIn |-> IF d.expirationTime = Null THEN Null
                             ELSE Some((d.expirationTime[1] - now) \div 1000),
               createdAt |-> IF d.createdAt = Null THEN Null
                             ELSE Some(toISOString(d.createdAt[1])),
               isAnonymous |-> Some(FALSE)]]

\* DefaultCookieSessionManager.verifySession on a whole header: the try
\* block, and the catch that returns null
verifySessionHeader(cfg, header) ==
    LET sessionData == parseSessionHeader(cfg, header) IN
    IF sessionData = Null \/ sessionData[1].type = "null"
    THEN [threw |-> FALSE, user |-> Null]
    ELSE IF /\ sessionData[1].obj.expirationTime # Null
            /\ now > sessionData[1].obj.expirationTime[1]
         THEN [threw |-> FALSE, user |-> Null]
         ELSE LET converted == sessionDataToUser(sessionData[1].obj)
              IN  IF converted.threw THEN [threw |-> FALSE, user |-> Null]
                  ELSE [threw |-> FALSE, user |-> Some(converted.user)]

\* DefaultCookieSessionManager.formatCookie(value)
formatCookie(cfg, value) ==
    <<Part(cfg.name, value),
      Part(<<"Path">>, Literal(cfg.path)),
      Part(<<"Max-Age">>, Literal(<<"432000">>)),
      Flag(<<"HttpOnly">>),
      Part(<<"SameSite">>, Literal(<<"lax">>))>>
    \o (IF cfg.secure THEN <<Flag(<<"Secure">>)>> ELSE <<>>)

\* DefaultCookieSessionManager.createSession(user)
createSession(cfg, u) ==
    LET sessionData ==
          [uid |-> u.uid, email |-> u.email,
           emailVerified |-> u.emailVerified,
           displayName |-> u.displayName, photoURL |-> u.photoURL,
           accessToken |-> u.accessToken, refreshToken |-> u.refreshToken,
           expirationTime |->
              IF Truthy(u.expirationTime) THEN u.expirationTime
              ELSE Some(now + (IF Truthy(u.expiresIn) THEN u.expiresIn[1]
                               ELSE 3600) * 1000),
           createdAt |-> Some(now)]
    IN  formatCookie(cfg, toBase64(JSONstringify(JsonObject(sessionData))))

\* a clearSession that clears the cookie at the default path
clearSession_defaultPath(cfg) ==
    <<Part(cfg.name, EmptyValue),
      Part(<<"Path">>, Literal(<<"/">>)),
      Part(<<"Max-Age">>, Literal(<<"0">>)),
      Flag(<<"HttpOnly">>),
      Part(<<"SameSite">>, Literal(<<"lax">>))>>
    \o (IF cfg.secure THEN <<Flag(<<"Secure">>)>> ELSE <<>>)
\* DefaultCookieSessionManager.clearSession() / clearSessionCookie(), and
\* the function clearSessionCookie(sessionConfig)
clearSession(cfg) ==
    <<Part(cfg.name, EmptyValue),
      Part(<<"Path">>, Literal(cfg.path)),
      Part(<<"Max-Age">>, Literal(<<"0">>)),
      Flag(<<"HttpOnly">>),
      Part(<<"SameSite">>, Literal(<<"lax">>))>>
    \o (IF cfg.secure THEN <<Flag(<<"Secure">>)>> ELSE <<>>)
clearSessionCookie(cfg) == clearSession(cfg)

\* the users a session is created for
Bundles ==
    {[uid |-> Some("alice"), email |-> Some("a@x"),
      emailVerified |-> Some(ev), displayName |-> dn, photoURL |-> Null,
      accessToken |-> Some(1), refreshToken |-> Some(2),
      expirationTime |-> Some(Now0 + 3600 * 1000), expiresIn |-> Some(3600),
      createdAt |-> Some(toISOString(created)), isAnonymous |-> Some(FALSE)] :
        ev \in BOOLEAN, dn \in {Null, Some("A")},
        created \in {Now0 - 3600 * 1000, Now0}}

\* verifySession(cookieHeader) as the middleware calls it
CodecVerify(header) ==
    /\ system = "codec"
    /\ codec.pc = "idle"
    /\ codec' = [codec EXCEPT
                   !.pc = "done", !.op = "verify", !.header = header,
                   !.threw = verifySessionHeader(codec.config, header).threw,
                   !.result = verifySessionHeader(codec.config, header).user]
    /\ UNCHANGED <<system, now, localStorage, cacheVars, storeVars, reqs,
                   guard, routes, platform, chain, providerVars, lastOp>>

\* createSession(user)
CodecCreate(u) ==
    /\ system = "codec"
    /\ codec.pc = "idle"
    /\ codec' = [codec EXCEPT !.pc = "created", !.op = "roundTrip",
                              !.bundle = Some(u),
                              !.envelope = createSession(codec.config, u)]
    /\ UNCHANGED <<system, now, localStorage, cacheVars, storeVars, reqs,
                   guard, routes, platform, chain, providerVars, lastOp>>

\* clearSession() or clearSessionCookie()
CodecClear(fn) ==
    /\ system = "codec"
    /\ codec.pc = "idle"
    /\ codec' = [codec EXCEPT
                   !.pc = "created", !.op = fn,
                   !.envelope = IF fn = "clearSession"
                                THEN clearSession(codec.config)
                                ELSE clearSessionCookie(codec.config)]
    /\ UNCHANGED <<system, now, localStorage, cacheVars, storeVars, reqs,
                   guard, routes, platform, chain, providerVars, lastOp>>

\* verifySession on the string createSession or clearSession returned
CodecReturn ==
    /\ system = "codec"
    /\ codec.pc = "created"
    /\ codec' = [codec EXCEPT
                   !.pc = "done", !.header = codec.envelope,
                   !.threw = verifySessionHeader(codec.config,
                                                 codec.envelope).threw,
                   !.result = verifySessionHeader(codec.config,
                                                  codec.envelope).user]
    /\ UNCHANGED <<system, now, localStorage, cacheVars, storeVars, reqs,
                   guard, routes, platform, chain, providerVars, lastOp>>

InitCodec ==
    /\ system = "codec"
    /\ now = Now0
    /\ localStorage = EmptyStorage
    /\ InitCacheVars
    /\ InitStoreVars
    /\ reqs = [r \in 1..MaxReqs |-> IdleReq]
    /\ guard = IdleGuard
    /\ codec \in {[IdleCodec EXCEPT !.config = cfg] : cfg \in CodecConfigs}
    /\ routes = IdleRoutes
    /\ platform = IdlePlatform
    /\ chain = IdleChain
    /\ rotating = FALSE /\ valid = {1} /\ minted = 1
    /\ lifetime = NumToString(3600)
    /\ lastOp = "none"

CodecNext ==
    \/ \E header \in Headers : CodecVerify(header)
    \/ \E u \in Bundles : CodecCreate(u)
    \/ \E fn \in {"clearSession", "clearSessionCookie"} : CodecClear(fn)
    \/ CodecReturn

SpecCodec == InitCodec /\ [][CodecNext]_vars

(***************************************************************************)
(* createAuthHandle (server/hooks): the one-click handle that answers the  *)
(* auth API routes under DEFAULT_API_PATH.                                 *)
(***************************************************************************)
DEFAULT_API_PATH == "/api/auth"
DEFAULT_CALLBACK_PATH == "__/auth/action"

LOCAL_ENDPOINTS ==
    [SIGN_UP |-> "/signup", SIGN_IN |-> "/signin", SIGN_OUT |-> "/signout",
     REFRESH_TOKEN |-> "/refresh", GET_USER |-> "/user",
     UPDATE_USER |-> "/user", DELETE_USER |-> "/user",
     PASSWORD_RESET |-> "/password-reset",
     PASSWORD_CONFIRM |-> "/password-confirm",
     VERIFY_EMAIL |-> "/verify-email",
     VERIFY_EMAIL_CONFIRM |-> "/verify-email-confirm"]

\* the cases of the switch of handleAuthApi, in the order of the source:
\* label, required method, whether a bearer token is required, and the
\* function of auth-handler the case calls
Case(label, method, bearer, operation) ==
    [label |-> label, method |-> method, bearer |-> bearer,
     operation |-> operation]
SwitchCases ==
    <<Case(LOCAL_ENDPOINTS.SIGN_UP, "POST", FALSE, "signUp"),
      Case(LOCAL_ENDPOINTS.SIGN_IN, "POST", FALSE, "signIn"),
      Case(LOCAL_ENDPOINTS.SIGN_OUT, "POST", FALSE, "none"),
      Case(LOCAL_ENDPOINTS.REFRESH_TOKEN, "POST", FALSE, "refreshToken"),
      Case(LOCAL_ENDPOINTS.GET_USER, "GET", TRUE, "getUser"),
      Case(LOCAL_ENDPOINTS.UPDATE_USER, "PUT", TRUE, "updateProfile"),
      Case(LOCAL_ENDPOINTS.DELETE_USER, "DELETE", TRUE, "deleteAccount"),
      Case(LOCAL_ENDPOINTS.PASSWORD_RESET, "POST", FALSE,
           "sendPasswordResetEmail"),
      Case(LOCAL_ENDPOINTS.PASSWORD_CONFIRM, "POST", FALSE,
           "confirmPasswordReset"),
      Case(LOCAL_ENDPOINTS.VERIFY_EMAIL, "POST", TRUE,
           "sendEmailVerification"),
      Case(LOCAL_ENDPOINTS.VERIFY_EMAIL_CONFIRM, "POST", FALSE,
           "confirmEmailVerification")>>

\* switch (endpoint): the first case whose label equals the endpoint, 0
\* for the default
switchCase(endpoint) ==
    LET hits == {i \in DOMAIN SwitchCases : SwitchCases[i].label = endpoint}
    IN  IF hits = {} THEN 0
        ELSE CHOOSE i \in hits : \A j \in hits : i <= j

\* the pathnames of requests: a pathname is the sequence of its pieces
RoutePathnames ==
    {<<"/">>, <<"/", DEFAULT_CALLBACK_PATH>>, <<DEFAULT_API_PATH>>,
     <<DEFAULT_API_PATH, "/unknown">>, <<DEFAULT_API_PATH, "x">>}
    \cup {<<DEFAULT_API_PATH, SwitchCases[i].label>> : i \in DOMAIN SwitchCases}
Methods == {"GET", "POST", "PUT", "DELETE"}

\* json(body, {status}) returned by the handle
respond(r, status) == [r EXCEPT !.pc = "done", !.status = status,
                                !.body = "json"]

\* the Handle of createAuthHandle up to its first await of auth-handler
RoutesHandle(method, pathname, authorization) ==
    LET r == [routes EXCEPT !.method = method, !.pathname = pathname,
                            !.authorization = authorization]
        endpoint == IF Len(pathname) > 1 THEN pathname[2] ELSE ""
        c == switchCase(endpoint)
    IN  /\ system = "routes"
        /\ routes.pc = "idle"
        /\ routes' =
             IF routes.enableCallback
                /\ pathname = <<"/", DEFAULT_CALLBACK_PATH>>
             THEN [r EXCEPT !.pc = "done", !.status = 200, !.body = "html"]
             ELSE IF startsWith(pathname, <<DEFAULT_API_PATH>>)
             THEN IF c = 0 THEN respond(r, 404)
                  ELSE IF method # SwitchCases[c].method THEN respond(r, 405)
                  ELSE IF SwitchCases[c].bearer /\ ~authorization
                       THEN respond(r, 401)
                  ELSE IF SwitchCases[c].operation = "none"
                       THEN respond(r, 200)
                  ELSE [r EXCEPT !.pc = "provider",
                                 !.operation = SwitchCases[c].operation]
             ELSE [r EXCEPT !.pc = "done", !.body = "resolve"]
        /\ UNCHANGED <<system, now, localStorage, cacheVars, storeVars, reqs,
                       guard, codec, platform, chain, providerVars, lastOp>>

\* handleAuthApi resumes: the function of auth-handler returned, or it
\* (or request.json()) threw and the catch answers 400
RoutesAnswered(ok) ==
    /\ system = "routes"
    /\ routes.pc = "provider"
    /\ routes' = respond(routes, IF ok THEN 200 ELSE 400)
    /\ UNCHANGED <<system, now, localStorage, cacheVars, storeVars, reqs,
                   guard, codec, platform, chain, providerVars, lastOp>>

InitRoutes ==
    /\ system = "routes"
    /\ now = Now0
    /\ localStorage = EmptyStorage
    /\ InitCacheVars
    /\ InitStoreVars
    /\ reqs = [r \in 1..MaxReqs |-> IdleReq]
    /\ guard = IdleGuard
    /\ codec = IdleCodec
    /\ routes \in {[IdleRoutes EXCEPT !.enableCallback = e] : e \in BOOLEAN}
    /\ platform = IdlePlatform
    /\ chain = IdleChain
    /\ rotating = FALSE /\ valid = {1} /\ minted = 1
    /\ lifetime = NumToString(3600)
    /\ lastOp = "none"

RoutesNext ==
    \/ \E method \in Methods, pathname \in RoutePathnames,
          authorization \in BOOLEAN :
          RoutesHandle(method, pathname, authorization)
    \/ \E ok \in BOOLEAN : RoutesAnswered(ok)

SpecRoutes == InitRoutes /\ [][RoutesNext]_vars

(***************************************************************************)
(* IdentityPlatform (identity-platform.ts): the singleton behind           *)
(* createAuthHanle.                                                        *)
(***************************************************************************)
MaxCalls == 3

\* the apiKey argument: omitted, empty, or a key
ApiKeys == {Null, Some(""), Some("k1"), Some("k2")}
\* `!apiKey` is false
hasApiKey(apiKey) == apiKey # Null /\ apiKey[1] # ""

\* new IdentityPlatform(apiKey), the n-th object constructed
NewIdentityPlatform(n, apiKey) == [id |-> n, apiKey |-> apiKey]

\* a getInstance that makes a new instance when the key differs
getInstance_perKey(p, apiKey) ==
    IF p.instance = Null \/ (hasApiKey(apiKey)
                             /\ p.instance[1].apiKey # apiKey[1])
    THEN IF ~hasApiKey(apiKey)
         THEN [threw |-> TRUE, returned |-> Null, instance |-> p.instance,
               constructed |-> p.constructed]
         ELSE [threw |-> FALSE,
               returned |-> Some(NewIdentityPlatform(p.constructed + 1,
                                                     apiKey[1])),
               instance |-> Some(NewIdentityPlatform(p.constructed + 1,
                                                     apiKey[1])),
               constructed |-> p.constructed + 1]
    ELSE [threw |-> FALSE, returned |-> p.instance, instance |-> p.instance,
          constructed |-> p.constructed]
\* IdentityPlatform.getInstance(apiKey) on the static state p: whether it
\* threw, what it returned, and the static state after it
getInstance(p, apiKey) ==
    IF p.instance = Null
    THEN IF ~hasApiKey(apiKey)
         THEN [threw |-> TRUE, returned |-> Null, instance |-> p.instance,
               constructed |-> p.constructed]
         ELSE [threw |-> FALSE,
               returned |-> Some(NewIdentityPlatform(p.constructed + 1,
                                                     apiKey[1])),
               instance |-> Some(NewIdentityPlatform(p.constructed + 1,
                                                     apiKey[1])),
               constructed |-> p.constructed + 1]
    ELSE [threw |-> FALSE, returned |-> p.instance, instance |-> p.instance,
          constructed |-> p.constructed]

\* the static state after a call, with the call appended to the record of
\* calls
afterCall(p, via, apiKey) ==
    LET c == getInstance(p, apiKey) IN
    [instance |-> c.instance, constructed |-> c.constructed,
     calls |-> Append(p.calls,
                      [via |-> via, apiKey |-> apiKey, threw |-> c.threw,
                       returned |-> c.returned,
                       constructed |-> c.constructed])]

\* IdentityPlatform.getInstance(apiKey) called by the application
GetInstance(apiKey) ==
    /\ system = "platform"
    /\ Len(platform.calls) < MaxCalls
    /\ platform' = afterCall(platform, "direct", apiKey)
    /\ UNCHANGED <<system, now, localStorage, cacheVars, storeVars, reqs,
                   guard, codec, routes, chain, providerVars, lastOp>>

\* a request under /api/auth/ handled by createAuthHanle(apiKey): its try
\* block starts with IdentityPlatform.getInstance(apiKey)
HanleRequest(apiKey) ==
    /\ system = "platform"
    /\ Len(platform.calls) < MaxCalls
    /\ platform' = afterCall(platform, "createAuthHanle", apiKey)
    /\ UNCHANGED <<system, now, localStorage, cacheVars, storeVars, reqs,
                   guard, codec, routes, chain, providerVars, lastOp>>

InitPlatform ==
    /\ system = "platform"
    /\ now = Now0
    /\ localStorage = EmptyStorage
    /\ InitCacheVars
    /\ InitStoreVars
    /\ reqs = [r \in 1..MaxReqs |-> IdleReq]
    /\ guard = IdleGuard
    /\ InitLibVars
    /\ rotating = FALSE /\ valid = {1} /\ minted = 1
    /\ lifetime = NumToString(3600)
    /\ lastOp = "none"

PlatformNext ==
    \/ \E apiKey \in ApiKeys : GetInstance(apiKey)
    \/ \E apiKey \in ApiKeys \ {Null} : HanleRequest(apiKey)

SpecPlatform == InitPlatform /\ [][PlatformNext]_vars

(***************************************************************************)
(* sequence(...handlers): the composition of Handle functions.  A handler  *)
(* is given by what it does with the resolve it receives; 0 stands for the *)
(* resolve that the composed handle received.                              *)
(***************************************************************************)
MaxHandlers == 3

\* a handler awaits resolve(event) and returns its response ("passes"),
\* awaits it and returns a response of its own ("replaces"), or returns a
\* response without calling resolve ("answers")
Behaviours == {"passes", "replaces", "answers"}
RECURSIVE HandlersUpTo(_)
HandlersUpTo(n) ==
    IF n = 0 THEN {<<>>}
    ELSE LET shorter == HandlersUpTo(n - 1)
         IN  shorter \cup {Append(hs, b) : hs \in shorter, b \in Behaviours}
HandlerLists == HandlersUpTo(MaxHandlers)

\* the loop of sequence() at index i, running from the last handler to
\* the first: wrapper i invokes handler i with the currentResolve found
RECURSIVE buildChain(_, _)
buildChain(i, acc) ==
    IF i = 0 THEN acc
    ELSE buildChain(i - 1, [first |-> i,
                            next |-> [acc.next EXCEPT ![i] = acc.first]])
\* the loop running from the first handler to the last
RECURSIVE buildChainForward(_, _, _)
buildChainForward(i, n, acc) ==
    IF i > n THEN acc
    ELSE buildChainForward(i + 1, n,
                           [first |-> i,
                            next |-> [acc.next EXCEPT ![i] = acc.first]])

\* sequence() with `for (let i = 0; i < handlers.length; i++)`
sequence_frontToBack(handlers) ==
    buildChainForward(1, Len(handlers),
                      [first |-> 0, next |-> [i \in DOMAIN handlers |-> 0]])
\* sequence(...handlers): what the composed handle invokes first, and what
\* the resolve passed to each handler invokes
sequence(handlers) ==
    buildChain(Len(handlers),
               [first |-> 0, next |-> [i \in DOMAIN handlers |-> 0]])

\* the response of the resolve that the composed handle received
Page == <<"page">>
Own(h) == <<"own", h>>

\* target is invoked: a handler starts running, or the original resolve
\* answers the handler that called it
invoke(c, target) ==
    IF target = 0
    THEN IF c.stack = <<>>
         THEN [c EXCEPT !.invoked = Append(@, 0), !.pc = "done",
                        !.response = <<Page>>]
         ELSE [c EXCEPT !.invoked = Append(@, 0),
                        !.stack[Len(c.stack)].got = <<Page>>]
    ELSE [c EXCEPT !.invoked = Append(@, target),
                   !.stack = Append(@, [h |-> target, called |-> FALSE,
                                        got |-> <<>>])]

\* the composed handle is called: `return currentResolve(event)`
SequenceHandle ==
    /\ system = "sequence"
    /\ chain.pc = "idle"
    /\ chain' = invoke([chain EXCEPT !.pc = "running"],
                       sequence(chain.handlers).first)
    /\ UNCHANGED <<system, now, localStorage, cacheVars, storeVars, reqs,
                   guard, codec, routes, platform, providerVars, lastOp>>

\* the running handler calls the resolve it was given
HandlerCallsResolve ==
    LET top == chain.stack[Len(chain.stack)] IN
    /\ system = "sequence"
    /\ chain.pc = "running" /\ chain.stack # <<>>
    /\ ~top.called
    /\ chain.handlers[top.h] \in {"passes", "replaces"}
    /\ chain' = invoke([chain EXCEPT !.stack[Len(chain.stack)].called = TRUE],
                       sequence(chain.handlers).next[top.h])
    /\ UNCHANGED <<system, now, localStorage, cacheVars, storeVars, reqs,
                   guard, codec, routes, platform, providerVars, lastOp>>

\* the running handler returns: to the handler whose resolve invoked it,
\* or, for the first one, to the caller of the composed handle
HandlerReturns ==
    LET n == Len(chain.stack)
        top == chain.stack[n]
        behaviour == chain.handlers[top.h]
        value == IF behaviour = "passes" THEN top.got[1] ELSE Own(top.h)
    IN  /\ system = "sequence"
        /\ chain.pc = "running" /\ chain.stack # <<>>
        /\ IF behaviour = "answers" THEN ~top.called
           ELSE top.called /\ top.got # <<>>
        /\ chain' =
              IF n = 1
              THEN [chain EXCEPT !.stack = <<>>, !.pc = "done",
                                 !.response = <<value>>]
              ELSE [chain EXCEPT !.stack = [SubSeq(chain.stack, 1, n - 1)
                                              EXCEPT ![n - 1].got = <<value>>]]
        /\ UNCHANGED <<system, now, localStorage, cacheVars, storeVars, reqs,
                       guard, codec, routes, platform, providerVars, lastOp>>

InitSequence ==
    /\ system = "sequence"
    /\ now = Now0
    /\ localStorage = EmptyStorage
    /\ InitCacheVars
    /\ InitStoreVars
    /\ reqs = [r \in 1..MaxReqs |-> IdleReq]
    /\ guard = IdleGuard
    /\ codec = IdleCodec
    /\ routes = IdleRoutes
    /\ platform = IdlePlatform
    /\ \E handlers \in HandlerLists :
          chain = [IdleChain EXCEPT !.handlers = handlers]
    /\ rotating = FALSE /\ valid = {1} /\ minted = 1
    /\ lifetime = NumToString(3600)
    /\ lastOp = "none"

SequenceNext ==
    \/ SequenceHandle
    \/ HandlerCallsResolve
    \/ HandlerReturns

SpecSequence == InitSequence /\ [][SequenceNext]_vars

(***************************************************************************)
(* Properties.                                                             *)
(***************************************************************************)
\* the refresh calls of the cache whose exchange is on its way, per token
RefreshesInFlight(t) ==
    {c \in calls : c.kind = "refresh" /\ c.arg = t /\ c.resp.type = "pending"}
RefreshTokensInFlight == {c.arg : c \in {d \in calls : d.kind = "refresh"}}

\* C1: client single-flight -- however often the refresh of the cache is
\* triggered before an earlier trigger resolved, at most one exchange for a
\* given refresh token is on its way to the provider.
C1_ClientSingleFlight ==
    system = "cache" =>
        \A t \in RefreshTokensInFlight : Cardinality(RefreshesInFlight(t)) <= 1

\* C2: server single-flight -- two overlapping requests presenting the same
\* expired session cookie never both have an exchange of that cookie's
\* refresh token under way.
C2_ServerSingleFlight ==
    \A r1, r2 \in 1..MaxReqs :
        (/\ r1 # r2
         /\ reqs[r1].pc = "verifyRefresh"
         /\ reqs[r2].pc = "verifyRefresh")
        => reqs[r1].data[1].refreshToken # reqs[r2].data[1].refreshToken

\* C3: against a provider that rotates refresh tokens on first use, no
\* interleaving of refresh triggers makes a refresh fail and sign the
\* cache out.
C3_CollisionNeverSurfaces ==
    ~(/\ lastOp = "refreshFailed"
      /\ state = initialState
      /\ \A k \in CacheKeys : localStorage[k] = Null)

\* the cache after signOut(): nothing in memory, nothing in storage
TornDown ==
    /\ currentIdToken = Null
    /\ currentRefreshToken = Null
    /\ expiresAt = Null
    /\ state = initialState
    /\ \A k \in CacheKeys : localStorage[k] = Null

\* C4: a refresh that was in flight when the cache was torn down completes
\* without bringing anything back: storage stays empty, the state stays
\* unauthenticated, the in-memory tokens stay absent.
C4_LateRefreshDiscarded ==
    [][\A c \in calls :
          (TornDown /\ c.kind = "refresh" /\ RefreshResolve(c)) => TornDown']_vars

\* C5: after signOut -- explicit, after the account was deleted, or after a
\* failed refresh -- no auto-refresh timer of the cache is armed.
C5_TeardownCancelsTimer ==
    lastOp \in {"signOut", "accountDeleted", "refreshFailed"} => timers = {}

\* C6: right after signOut / deleteAccount every persisted key of the cache
\* is gone, the tokens are absent and the state is unauthenticated with no
\* user; right after AuthStore.clear / setUser(null) the stored user is
\* gone, user is null and authState is unauthenticated.
C6_TeardownResult ==
    /\ (system = "cache" /\ lastOp \in {"signOut", "accountDeleted"})
       => /\ \A k \in CacheKeys : localStorage[k] = Null
          /\ currentIdToken = Null
          /\ currentRefreshToken = Null
          /\ expiresAt = Null
          /\ state.user = Null
          /\ ~state.isAuthenticated
    /\ (system = "store" /\ lastOp \in {"clear", "setUserNull"})
       => /\ localStorage[StoreKey] = Null
          /\ user = Null
          /\ authState = "unauthenticated"

\* an account deletion went through on a persisting cache: the bundle it
\* held until then is gone
C6_Witness ==
    /\ system = "cache"
    /\ lastOp = "accountDeleted"
    /\ config # Null /\ config[1].persistence
    /\ TornDown

\* C7: whatever init calls and other operations happened, the cache has at
\* most one auto-refresh timer armed.
C7_AtMostOneTimer == Cardinality(timers) <= 1

\* init ran twice with auto-refresh and one timer is armed
C7_Witness ==
    /\ inits = 2
    /\ refreshInterval # Null /\ refreshInterval[1] = 2
    /\ Cardinality(timers) = 1

\* C8: with auto-refresh on, once a bundle held by the cache is inside the
\* buffer before its expiry, a refresh of it has been started.
C8_RefreshAheadOfExpiry ==
    (/\ system = "cache"
     /\ config # Null /\ config[1].autoRefresh
     /\ currentRefreshToken # Null
     /\ expiresAt # Null
     /\ now > expiresAt[1] - BufferMs)
    => \E c \in calls : c.kind = "refresh" /\ c.arg = currentRefreshToken[1]

\* C9: while the refresh that the first init started for a stale hydrated
\* bundle has not completed, the cache does not report Authenticated.
C9_StaleHydrationNotAuthenticated ==
    (/\ system = "cache"
     /\ inits = 1
     /\ lastOp = "init"
     /\ \E c \in calls : c.kind = "refresh")
    => ~state.isAuthenticated

\* C10: once an exchange of a refresh token has failed, the cache starts no
\* further exchange with that refresh token.
C10_FailedRefreshNotRetried ==
    [][\A c \in calls' \ calls :
          (c.kind = "refresh" /\ c.resp.type = "pending")
          => c.arg \notin failedRts]_vars
(***************************************************************************)
(* The cache when the provider is free never to answer: the event loop     *)
(* runs what is ready (an answered await resumes, a due timer fires, time  *)
(* passes), but nothing obliges the provider to answer or fetch to reject. *)
(***************************************************************************)
UnansweredNext ==
    \/ \E cfg \in {c \in Configs : c.persistence} : init(cfg)
    \/ \E t \in timers : TimerFire(t)
    \/ \E c \in calls : RefreshResolve(c)
    \/ Advance
    \/ \E c \in calls : ProviderExchange(c)
    \/ \E c \in calls : NetworkFail(c)

FairSpecUnanswered ==
    /\ InitCache
    /\ [][UnansweredNext]_vars
    /\ WF_vars(\E c \in calls : RefreshResolve(c))
    /\ WF_vars(\E t \in timers : TimerFire(t))
    /\ WF_vars(Advance)

\* C11: every token exchange of the cache ends -- a refresh whose exchange
\* is pending is eventually no longer pending, also when the provider never
\* answers.
C11_ExchangeEnds ==
    \A i \in 1..(MaxInFlight + 1) :
        (\E c \in calls : c.id = i /\ c.kind = "refresh"
                          /\ c.resp.type = "pending")
        ~> ~(\E c \in calls : c.id = i /\ c.kind = "refresh"
                              /\ c.resp.type = "pending")
\* the bundle in storage and the bundle in memory
PersistedAbsent == \A k \in CacheKeys : localStorage[k] = Null
MemoryAbsent ==
    /\ state.user = Null
    /\ currentIdToken = Null
    /\ currentRefreshToken = Null
    /\ expiresAt = Null
PersistedEqualsMemory ==
    /\ state.user # Null /\ currentIdToken # Null
    /\ currentRefreshToken # Null /\ expiresAt # Null
    /\ localStorage[STORAGE_KEYS.USER] = Some(safeJsonStringify(state.user[1]))
    /\ localStorage[STORAGE_KEYS.ID_TOKEN] = Some(Text(currentIdToken[1]))
    /\ localStorage[STORAGE_KEYS.REFRESH_TOKEN]
          = Some(Text(currentRefreshToken[1]))
    /\ localStorage[STORAGE_KEYS.EXPIRES_AT] = Some(NumToString(expiresAt[1]))

\* C12: with persistence enabled, whenever control is back in the event
\* loop the persisted user, tokens and expiry equal the ones in memory, or
\* both copies are absent (storage that holds a stored user this cache
\* cannot parse is left aside).
C12_NoTornWrite ==
    (/\ system = "cache"
     /\ config # Null /\ config[1].persistence
     /\ \/ localStorage[STORAGE_KEYS.USER] = Null
        \/ safeJsonParse(localStorage[STORAGE_KEYS.USER][1], Null) # Null)
    => \/ PersistedAbsent /\ MemoryAbsent
       \/ PersistedEqualsMemory
\* the session the default manager finds in the request's cookie header
NoLiveSession(cookie) ==
    \/ cookie = Null
    \/ parseSessionData(cookie[1]) = Null
    \/ now > parseSessionData(cookie[1])[1].expirationTime

\* C13: the guard fails closed -- a request for a pathname the guard
\* classifies Protected reaches the downstream handler only if verification
\* produced a user; without a cookie, with an undecodable or expired one,
\* with verification answering null/false or throwing, it does not.
C13_FailsClosed ==
    (/\ system = "guard"
     /\ guard.pc = "done"
     /\ guard.kind \in {"middleware", "authGuard"}
     /\ Classify(guard.kind, guard.pathname, guard.policy) = "Protected")
    => /\ guard.outcome = "resolve"
          => IF guard.kind = "middleware"
             THEN guard.locals.user # Null /\ guard.answer = "user"
             ELSE guard.answer = "true"
       /\ (guard.kind = "middleware" /\ guard.manager = "default"
           /\ NoLiveSession(guard.cookie))
          => guard.outcome = "redirect"
       /\ guard.answer \in {"throws", "null", "false"}
          => guard.outcome \in {"redirect", "unauthorized", "thrown"}

\* a protected pathname, a cookie, and a session manager that threw: the
\* middleware answered with the login redirect
C13_Witness ==
    /\ guard.pc = "done"
    /\ guard.kind = "middleware"
    /\ Classify(guard.kind, guard.pathname, guard.policy) = "Protected"
    /\ guard.cookie # Null
    /\ guard.answer = "throws"
    /\ guard.outcome = "redirect"
\* the guard has finished a request for a protected page that came without
\* a live session
ProtectedWithoutSession ==
    /\ system = "guard"
    /\ guard.pc = "done"
    /\ \/ /\ guard.kind = "middleware"
          /\ Classify(guard.kind, guard.pathname, guard.policy) = "Protected"
          /\ ~guard.locals.authenticated
       \/ /\ guard.kind = "authGuard"
          /\ Classify(guard.kind, guard.pathname, guard.policy) = "Protected"
          /\ guard.answer \in {"none", "false"}
       \/ /\ guard.kind = "protectRoute"
          /\ guard.locals.user = Null

\* C14: a request for a protected pathname without a live session is
\* answered with a redirect to the login path whose Location carries the
\* requested path as return-to parameter -- by the middleware, by
\* createAuthGuard and by protectRoute.
C14_RedirectCarriesReturnTo ==
    ProtectedWithoutSession
    => /\ guard.outcome = "redirect"
       /\ guard.location # Null
       /\ guard.location[1].path = LoginPath
       /\ guard.location[1].redirect # Null
       /\ startsWith(guard.location[1].redirect[1], guard.pathname)
\* C15: a request for a pathname the guard classifies Public or Unmatched
\* is always passed on, whatever the session: no cookie, undecodable
\* cookie, expired or live session, verification throwing.
C15_PublicAndUnmatchedPass ==
    (/\ system = "guard"
     /\ guard.pc = "done"
     /\ guard.kind \in {"middleware", "authGuard"}
     /\ Classify(guard.kind, guard.pathname, guard.policy)
           \in {"Public", "Unmatched"})
    => guard.outcome = "resolve" /\ guard.location = Null

\* a public pathname requested with a cookie whose verification threw was
\* passed on by the middleware
C15_Witness ==
    /\ guard.pc = "done"
    /\ guard.kind = "middleware"
    /\ Classify(guard.kind, guard.pathname, guard.policy) = "Public"
    /\ guard.answer = "throws"
    /\ guard.outcome = "resolve"
\* the classification of a pathname by first match in declaration order,
\* with the matcher of the guard
RECURSIVE FirstMatch(_, _, _)
FirstMatch(kind, pathname, policy) ==
    IF policy = <<>> THEN "Unmatched"
    ELSE IF (IF kind = "middleware"
             THEN pathMatches(pathname, Head(policy).pattern)
             ELSE matchRoute(pathname, Head(policy).pattern))
         THEN IF Head(policy).classification = "public"
              THEN "Public" ELSE "Protected"
         ELSE FirstMatch(kind, pathname, Tail(policy))

\* C16: when public and protected patterns overlap, a pathname gets the
\* classification of whichever matching pattern was declared first.
C16_FirstMatchWins ==
    (/\ system = "guard"
     /\ guard.pc = "done"
     /\ guard.kind \in {"middleware", "authGuard"})
    => Classify(guard.kind, guard.pathname, guard.policy)
         = FirstMatch(guard.kind, guard.pathname, guard.policy)
\* a pattern with a wildcard suffix, and the prefix it stands for
isWildcard(pattern) == endsWith(pattern, <<"*">>)
\* exact match, or prefix match for a wildcard-suffixed pattern
exactOrPrefix(pathname, pattern) ==
    IF isWildcard(pattern)
    THEN startsWith(pathname, sliceEnd(pattern, 1))
    ELSE pathname = pattern

\* C17: a pattern without wildcard suffix matches a pathname only when the
\* two are equal, a wildcard-suffixed pattern matches by prefix; in the
\* matcher of the middleware as in matchRoute.
C17_ExactUnlessWildcard ==
    (system = "guard" /\ guard.pc = "done"
     /\ guard.kind \in {"middleware", "authGuard"})
    => \A i \in DOMAIN guard.policy :
          LET pattern == guard.policy[i].pattern IN
          (IF guard.kind = "middleware"
           THEN pathMatches(guard.pathname, pattern)
           ELSE matchRoute(guard.pathname, pattern))
          <=> exactOrPrefix(guard.pathname, pattern)
\* the cookie of the request decodes to a well-formed bundle that has
\* expired and carries a refresh token
ExpiredWithRefreshToken(cookie) ==
    /\ cookie # Null
    /\ parseSessionData(cookie[1]) # Null
    /\ now > parseSessionData(cookie[1])[1].expirationTime
    /\ parseSessionData(cookie[1])[1].refreshToken # 0

\* C18: a request whose cookie holds an expired, well-formed bundle with a
\* refresh token is treated as unauthenticated only after a token exchange
\* was attempted for it.
C18_RefreshedBeforeGivingUp ==
    (/\ system = "guard"
     /\ guard.kind = "middleware"
     /\ guard.manager = "default"
     /\ guard.pc = "done"
     /\ ExpiredWithRefreshToken(guard.cookie)
     /\ ~guard.locals.authenticated)
    => guard.exchanges > 0
\* the session of u is within the refresh buffer of its expiry
needsRefresh(u) == now + BufferMs >= u.expirationTime

\* C19: a request with a live session for which needsRefresh holds, under
\* autoRefresh, is let through to a protected pathname without a token
\* exchange and is marked for refresh; a request is not marked when
\* needsRefresh does not hold, autoRefresh is off, or there is no user.
C19_MarkedForRefresh ==
    (/\ system = "guard"
     /\ guard.kind = "middleware"
     /\ guard.pc = "done"
     /\ guard.locals.assigned)
    => /\ guard.locals.shouldRefreshToken
          <=> /\ guard.locals.user # Null
              /\ guard.autoRefresh
              /\ needsRefresh(guard.locals.user[1])
       /\ (/\ guard.locals.shouldRefreshToken
           /\ Classify(guard.kind, guard.pathname, guard.policy) = "Protected")
          => guard.outcome = "resolve" /\ guard.exchanges = 0
\* C20: once the middleware has handled a request, locals.user and
\* locals.authenticated have been assigned, locals.authenticated is true
\* exactly when locals.user is not null, and locals.user is what the
\* session manager resolved; for a request without cookie header, with an
\* undecodable cookie, with an expired session, and when verification
\* throws.
C20_RequestScopedIdentity ==
    (system = "guard" /\ guard.kind = "middleware" /\ guard.pc = "done")
    => /\ guard.locals.assigned
       /\ guard.locals.authenticated <=> guard.locals.user # Null
       /\ (guard.cookie = Null \/ guard.answer \in {"throws", "null"})
             => guard.locals.user = Null
       /\ (guard.manager = "default" /\ guard.cookie # Null)
             => guard.locals.user = verifySession(guard.cookie[1])

\* the middleware handled a request whose verification threw
C20_Witness ==
    /\ guard.kind = "middleware"
    /\ guard.pc = "done"
    /\ guard.cookie # Null
    /\ guard.answer = "throws"
    /\ guard.locals.assigned
    /\ ~guard.locals.authenticated
\* a decoded JSON value that is no object or lacks a required field
LacksRequiredField(v) ==
    v.type # "object" \/ \E f \in RequiredFields : v.obj[f] = Null

\* C21: session verification never throws, and returns null when the
\* cookie is missing, its value is not base64, the decoded text is not
\* JSON, or the decoded object lacks a required field (subject id, access
\* token, refresh token, expiry).
C21_DecodeFailsClosed ==
    (system = "codec" /\ codec.pc = "done" /\ codec.op = "verify")
    => /\ ~codec.threw
       /\ LET match == matchCookie(codec.header, codec.config.name) IN
          (\/ match = Null
           \/ ~match[1].strict
           \/ ~JSONparses(fromBase64(match[1]))
           \/ LacksRequiredField(fromBase64(match[1]).val))
          => codec.result = Null
\* the fields of a user that a session carries
BundleFields ==
    {"uid", "email", "emailVerified", "displayName", "photoURL",
     "accessToken", "refreshToken", "createdAt", "expirationTime"}

\* C22: verifying the cookie that createSession made for a user returns a
\* user equal to it in subject id, email, emailVerified, displayName,
\* photoURL, access token, refresh token, issue time and expiry.
C22_RoundTrip ==
    (/\ system = "codec" /\ codec.pc = "done" /\ codec.op = "roundTrip")
    => /\ codec.result # Null
       /\ \A f \in BundleFields : codec.result[1][f] = codec.bundle[1][f]
\* a bundle is live while its expiry is strictly in the future
isLive(exp) == now < exp

\* the decoded session of the cookie verifySession looked at, when it is a
\* complete SessionData
DecodedSession ==
    LET match == matchCookie(codec.header, codec.config.name) IN
    IF match # Null /\ match[1].strict /\ JSONparses(fromBase64(match[1]))
       /\ ~LacksRequiredField(fromBase64(match[1]).val)
       /\ fromBase64(match[1]).val.obj.createdAt # Null
    THEN Some(fromBase64(match[1]).val.obj)
    ELSE Null

\* C23: a bundle is live iff now < expiresAt, and not live when the two
\* are equal; verifySession and isTokenExpired decide by this rule.
C23_LivenessBoundary ==
    (/\ system = "codec" /\ codec.pc = "done" /\ codec.op = "verify"
     /\ DecodedSession # Null)
    => /\ codec.result # Null <=> isLive(DecodedSession[1].expirationTime[1])
       /\ isTokenExpired(DecodedSession[1].expirationTime[1])
             <=> ~isLive(DecodedSession[1].expirationTime[1])
\* C24: verifying an expired but well-formed cookie yields its bundle, not
\* null, so that an expired session can be told from an absent or
\* malformed one.
C24_ExpiredStillDecodes ==
    (/\ system = "codec" /\ codec.pc = "done" /\ codec.op = "verify"
     /\ DecodedSession # Null
     /\ now > DecodedSession[1].expirationTime[1])
    => /\ codec.result # Null
       /\ codec.result[1].expirationTime = DecodedSession[1].expirationTime
\* the derived store tokenExpiringSoon of client/store.ts, for $user
tokenExpiringSoon(u) ==
    IF u = Null \/ u[1].expirationTime = 0 THEN FALSE
    ELSE (u[1].expirationTime - now) < 5 * 60 * 1000

\* C25: with the buffer of 300000 ms a bundle needs refresh iff
\* now + 300000 >= expiresAt; willTokenExpireSoon, the middleware's
\* shouldRefreshToken and the client's tokenExpiringSoon all return this
\* value.
C25_NeedsRefreshBoundary ==
    (/\ system = "guard" /\ guard.kind = "middleware" /\ guard.pc = "done"
     /\ guard.locals.user # Null)
    => LET exp == guard.locals.user[1].expirationTime IN
       /\ willTokenExpireSoon(exp) <=> now + 300000 >= exp
       /\ shouldRefreshToken(guard.locals.user[1]) <=> now + 300000 >= exp
       /\ tokenExpiringSoon(guard.locals.user) <=> now + 300000 >= exp
\* the cookies of a header whose name is exactly the given one
RECURSIVE cookiesNamed(_, _)
cookiesNamed(header, name) ==
    IF header = <<>> THEN <<>>
    ELSE (IF Head(header).name = name THEN <<Head(header)>> ELSE <<>>)
         \o cookiesNamed(Tail(header), name)

\* C26: on a header that holds several cookies in any order, verification
\* returns the bundle of the cookie whose name equals the configured name,
\* also when a cookie whose name ends with that name comes earlier.
C26_CookieByExactName ==
    (system = "codec" /\ codec.pc = "done" /\ codec.op = "verify")
    => codec.result =
          verifySessionHeader(codec.config,
              cookiesNamed(codec.header, codec.config.name)).user
\* C27: the clearing cookie has the name and path of the cookie
\* createSession makes under the same configuration, an empty value and
\* Max-Age=0, and a header consisting of it verifies to no session.
C27_ClearUndoesEncode ==
    (/\ system = "codec"
     /\ codec.op \in {"clearSession", "clearSessionCookie"})
    => /\ \A u \in Bundles :
            /\ codec.envelope[1].name = createSession(codec.config, u)[1].name
            /\ codec.envelope[2] = createSession(codec.config, u)[2]
       /\ codec.envelope[1].hasEq /\ codec.envelope[1].value.empty
       /\ codec.envelope[2].name = <<"Path">>
       /\ codec.envelope[3] = Part(<<"Max-Age">>, Literal(<<"0">>))
       /\ codec.pc = "done" => (~codec.threw /\ codec.result = Null)

\* the clearing cookie of a manager with a path of its own was verified
C27_Witness ==
    /\ codec.pc = "done"
    /\ codec.op = "clearSessionCookie"
    /\ codec.config.path = <<"/", "a">>
    /\ codec.header = codec.envelope
    /\ codec.result = Null
\* waitForAuthInit(): the subscriber runs at once with the current state,
\* inside the initializer of `const unsubscribe`; when that state is not
\* 'loading' the call unsubscribe() throws in the promise executor and the
\* promise is rejected
waitForAuthInit ==
    /\ system = "store"
    /\ waiter = "none"
    /\ waiter' = IF authState = "loading" THEN "pending" ELSE "rejected"
    /\ UNCHANGED <<system, guard, libVars, now, localStorage, cacheVars,
                   reqs, providerVars, user, authState, loading, error,
                   fetches, authEvents, lastOp>>

\* the AuthStore in a browser whose application may wait for
\* initialization; every fetch ends and every resumed await runs
InitializeNext == StoreNext \/ waitForAuthInit
FairSpecInitialize ==
    /\ InitStore
    /\ [][InitializeNext]_vars
    /\ \A i \in 1..MaxInFlight :
          /\ WF_vars(\E f \in fetches : f.id = i /\ FetchAnswer(f))
          /\ WF_vars(\E f \in fetches : f.id = i /\ FetchResolve(f))

\* initialize() ran last: its start, or the resumption of the fetch it
\* awaits in fetchCurrentUser, validateCurrentUser or refreshToken
InitializeOps ==
    {"initialize", "fetchedUser", "noUser", "validated", "invalidated",
     "storeRefreshed", "storeRefreshFailed"}

\* every initialize() is followed by a state other than 'loading'
InitializeSettles ==
    [](lastOp = "initialize"
         => <>(authState \in {"authenticated", "unauthenticated"}))

\* C28: every initialize() eventually leaves 'loading' for authenticated
\* or unauthenticated, however its network calls end and whatever storage
\* holds; consequently a waitForAuthInit() of an application that
\* initializes eventually resolves.
C28_InitializationSettles ==
    /\ InitializeSettles
    /\ [](waiter # "none" /\ lastOp \in InitializeOps
            => <>(waiter = "resolved"))
\* the provider operation documented for a method on the user path
UserPathOperation(method) ==
    IF method = "GET" THEN "getUser"
    ELSE IF method = "PUT" THEN "updateProfile"
    ELSE "deleteAccount"

\* C29: with createAuthHandle, GET, PUT and DELETE on /api/auth/user each
\* reach their own provider operation (look up, update profile, delete
\* account); none is answered with 405 or 404.
C29_UserPathMethods ==
    (/\ system = "routes"
     /\ routes.pc # "idle"
     /\ routes.pathname = <<DEFAULT_API_PATH, "/user">>
     /\ routes.method \in {"GET", "PUT", "DELETE"})
    => /\ routes.status \notin {404, 405}
       /\ routes.authorization
             => routes.operation = UserPathOperation(routes.method)
\* C30: once getInstance has succeeded every later call returns that same
\* instance, with the API key of the first successful call, whatever
\* apiKey is passed; a call without apiKey made before any instance
\* exists throws and creates no instance.
C30_Singleton ==
    system = "platform"
    => /\ platform.constructed <= 1
       /\ \A i \in DOMAIN platform.calls :
            LET c == platform.calls[i]
                earlier == {k \in 1..(i - 1) :
                               platform.calls[k].returned # Null}
            IN  /\ \A k \in earlier :
                      ~c.threw /\ c.returned = platform.calls[k].returned
                /\ (earlier = {} /\ ~hasApiKey(c.apiKey))
                      => c.threw /\ c.returned = Null /\ c.constructed = 0
                /\ (earlier = {} /\ hasApiKey(c.apiKey))
                      => c.returned # Null
                         /\ c.returned[1].apiKey = c.apiKey[1]

\* a call without key failed, a call with a key made the instance, and a
\* call with another key got that instance back
C30_Witness ==
    /\ Len(platform.calls) = 3
    /\ platform.calls[1].threw
    /\ platform.calls[2].apiKey = Some("k1")
    /\ platform.calls[3].apiKey = Some("k2")
    /\ platform.calls[3].returned = platform.calls[2].returned
    /\ platform.calls[3].returned[1].apiKey = "k1"
\* the derived store `authenticated`, read by AuthStore.isAuthenticated()
authenticated == authState = "authenticated" /\ user # Null

\* C31: whatever sequence of setUser, updateUser, clear, initialize,
\* refreshToken and client requests ran, an authenticated store holds a
\* user and an unauthenticated store holds none; setUser(u) with a user
\* leaves getCurrentUser() = u and isAuthenticated() true, clear() leaves
\* getCurrentUser() null and isAuthenticated() false.
C31_StoreConsistency ==
    /\ [](/\ authState = "authenticated" => user # Null
          /\ authState = "unauthenticated" => user = Null
          /\ lastOp = "setUser" => authenticated
          /\ lastOp = "clear" => user = Null /\ ~authenticated)
    /\ [][\A u \in {Some(x) : x \in ServerUsers} :
             setUser(u) => user' = u]_vars

\* updateUser changed the user of an authenticated store
C31_Witness ==
    /\ lastOp = "updateUser"
    /\ authState = "authenticated"
    /\ user = Some(StoreUser(2, Now0 + 3600 * 1000))
    /\ localStorage[StoreKey] = Some(JSONstringify(user[1]))
\* a request sent through authRequest has not resumed yet
AuthRequestsInFlight == {f \in fetches : f.op \in AuthRequestOps}

\* C36: the loading flag tracks the requests in flight: it is true once a
\* request was sent through authRequest, and when a request completes or
\* fails it stays true exactly if another request is still in flight.
C36_LoadingTracksRequests ==
    [][/\ \A op \in AuthRequestOps : authRequest(op) => loading'
       /\ \A f \in fetches :
             AuthRequestResolve(f)
             => (loading' <=> AuthRequestsInFlight' # {})]_vars
\* the log `after` holds the most recent events of `before` in their order,
\* then n new ones; an event of `before` is missing only from a full log
KeepsMostRecent(before, after, n) ==
    LET kept == Len(after) - n IN
    /\ kept >= 0 /\ kept <= Len(before)
    /\ SubSeq(after, 1, kept)
         = SubSeq(before, Len(before) - kept + 1, Len(before))
    /\ \A i \in (kept + 1)..Len(after) : after[i].timestamp = now
    /\ kept < Len(before) => Len(after) = 10

\* C38: after any sequence of store operations authEvents holds at most 10
\* events, the most recent ones in their order of occurrence: an operation
\* appends its events and drops older ones only from a log that is then
\* full; clear() empties the log.
C38_EventLogBounded ==
    /\ [](Len(authEvents.events) <= 10)
    /\ [][IF clear
          THEN authEvents'.events = <<>>
          ELSE \E n \in 0..2 :
                  KeepsMostRecent(authEvents.events, authEvents'.events, n)]_vars

\* a refresh added its two events to a log of 9: the oldest one is gone
C38_Witness ==
    /\ system = "events"
    /\ lastOp = "storeRefreshed"
    /\ Len(authEvents.events) = 10
    /\ authEvents.events[1].timestamp = Now0 - 8
    /\ authEvents.events[9].type = "signIn"
    /\ authEvents.events[10].type = "tokenRefresh"
\* C32: a request whose provider call fails is answered: handle() resolves
\* to an error response (400 or 500) and never rejects.
C32_ProviderFailureAnswered ==
    \A r \in 1..MaxReqs :
        /\ reqs[r].pc # "rejected"
        /\ reqs[r].pc \notin {"idle", "verifyRefresh", "verifyToken", "refresh"}
           => reqs[r].status \in {200, 400, 401, 500}

\* C33: handling one refresh request issues at most one token exchange,
\* whether the session cookie it presents is live or expired.
C33_OneExchangePerRequest ==
    \A r \in 1..MaxReqs :
        reqs[r].kind = "refresh" => reqs[r].exchanges <= 1
\* the cache holds no session: no token in memory, nothing in storage, no
\* user in the state
SignedOut ==
    /\ currentIdToken = Null
    /\ currentRefreshToken = Null
    /\ expiresAt = Null
    /\ \A k \in CacheKeys : localStorage[k] = Null
    /\ state.user = Null
    /\ ~state.isAuthenticated

\* C34: the response of a signIn, signUp or updateProfile that was in
\* flight when signOut ran is discarded: once it has been processed storage
\* is still empty, the tokens are still absent and the state is still
\* unauthenticated with no user.
C34_LateResultsDiscarded ==
    [][\A c \in calls :
          (/\ lastOp = "signOut"
           /\ SignInResolve(c) \/ UpdateProfileResolve(c))
          => SignedOut']_vars

\* C35: in every reachable state of the auth store, isAuthenticated is
\* true exactly if user is non-null.
C35_AuthenticatedIffUser ==
    system = "cache" => (state.isAuthenticated <=> state.user # Null)
\* the pathname is P itself or lies under P/
WithinSegment(pathname, P) ==
    pathname = P \/ startsWith(pathname, P \o <<"/">>)

\* C37: a pattern 'P/*' matches a pathname only if the pathname is P or
\* lies under 'P/', in the matcher of the middleware as in matchRoute: a
\* pathname that merely begins with the characters of P is not matched.
C37_WildcardSegmentBoundary ==
    (system = "guard" /\ guard.pc = "done"
     /\ guard.kind \in {"middleware", "authGuard"})
    => \A i \in DOMAIN guard.policy :
          LET pattern == guard.policy[i].pattern IN
          (/\ endsWith(pattern, <<"/", "*">>)
           /\ IF guard.kind = "middleware"
              THEN pathMatches(guard.pathname, pattern)
              ELSE matchRoute(guard.pathname, pattern))
          => WithinSegment(guard.pathname, sliceEnd(pattern, 2))
\* the invocations the documented order prescribes: the handlers in the
\* order given up to the first that answers without calling resolve, and
\* the original resolve (0) after the last one if none does
RECURSIVE ExpectedFrom(_, _)
ExpectedFrom(handlers, i) ==
    IF i > Len(handlers) THEN <<0>>
    ELSE IF handlers[i] = "answers" THEN <<i>>
    ELSE <<i>> \o ExpectedFrom(handlers, i + 1)

\* C39: sequence(h1, ..., hn) first invokes h1; resolve inside hi invokes
\* h(i+1), inside hn the original resolve; a handler that returns without
\* calling resolve stops the chain: no later handler and no original
\* resolve runs.
C39_SequenceOrder ==
    system = "sequence" =>
        LET expected == ExpectedFrom(chain.handlers, 1) IN
        /\ Len(chain.invoked) <= Len(expected)
        /\ chain.invoked = SubSeq(expected, 1, Len(chain.invoked))
        /\ chain.pc = "done" => chain.invoked = expected

\* three handlers, the second answers: the third and the original resolve
\* never ran, and the first returned the second's response
C39_Witness ==
    /\ system = "sequence"
    /\ chain.pc = "done"
    /\ chain.handlers = <<"passes", "answers", "passes">>
    /\ chain.invoked = <<1, 2>>
    /\ chain.response = <<Own(2)>>
====
